---- MODULE Spec2Model ----
(***************************************************************************)
(* Model of the LLM inference gateway: the authentication / quota gate     *)
(* (LLMService.ValidateAPIKeyOptimized over CacheService and the durable   *)
(* store), the accounting record life cycle (LLMService.ChatCompletion,    *)
(* LLMService.StreamChatCompletion), the Anthropic adapter's reader         *)
(* goroutine and SSE processing, the relay goroutine and the HTTP handler. *)
(*                                                                         *)
(* The repository holds two copies of the orchestrator: services/llm.go    *)
(* (relay forwards with a blocking channel send, key validation fetches    *)
(* usage after caching the key) and unnamed/part_004 (relay forwards with  *)
(* select/default, key validation prefetches usage).  The variable impl    *)
(* says which copy is built; it never changes after Init.                  *)
(***************************************************************************)
EXTENDS Naturals, Integers, Sequences, FiniteSets, TLC

\* ------------------------------------------------------------------ bounds
NumCalls == 2
MaxMessages == 2        \* concurrent inbound calls of ConcSpec
MaxLimit == 2        \* largest daily / monthly ceiling drawn in Init
MaxDays == 2         \* days of wall-clock time the daily window is computed in
MaxRate == 2         \* largest rate a RateLimiter is built with
MaxJumps == 2        \* times the clock moves in a run of the rate limiter
MaxPrior == 2        \* accounting records of the key that exist before the run
MaxEvents == 4       \* longest upstream event stream of the streaming specification
ChanCap == 1         \* capacity of streamChan and wrappedChan (100 in the source, scaled)
MaxTokens == 2       \* largest token count reported by the vendor
MaxBytes == 6        \* longest upstream body of the byte-level reader specification

Calls == 1..NumCalls

\* --------------------------------------------------------- optional values
Nil == <<>>
Some(x) == <<x>>
IsNil(o) == o = <<>>
Get(o) == o[1]

\* ------------------------------------------------------------ SSE events
\* A line of an event is a prefix and a payload.  A payload is either raw
\* text (json = FALSE) or a JSON object of which the fields the code
\* decodes are kept: type, message.usage and usage.
RawPayload(s) ==
  [json |-> FALSE, raw |-> s, type |-> "", message |-> Nil, usage |-> Nil]
JsonPayload(t, m, u) ==
  [json |-> TRUE, raw |-> "", type |-> t, message |-> m, usage |-> u]
DataLine(p) == [prefix |-> "data: ", body |-> p]
EventLine(s) == [prefix |-> "event: ", body |-> RawPayload(s)]
CommentLine(s) == [prefix |-> ": ", body |-> RawPayload(s)]

VendorUsage(i, o) == [input_tokens |-> i, output_tokens |-> o]
UsageCountsOf(i, o, t) == [input_tokens |-> i, output_tokens |-> o, total_tokens |-> t]

\* Events as the vendor frames them (the text between two blank lines).
EvDelta == <<EventLine("content_block_delta"), DataLine(JsonPayload("content_block_delta", Nil, Nil))>>
EvDeltaBare == <<DataLine(JsonPayload("content_block_delta", Nil, Nil))>>
EvStopUsage(i, o) ==
  <<EventLine("message_stop"), DataLine(JsonPayload("message_stop", Some(VendorUsage(i, o)), Nil))>>
EvStopUsageBare(i, o) ==
  <<DataLine(JsonPayload("message_stop", Some(VendorUsage(i, o)), Nil))>>
EvStopPlain == <<DataLine(JsonPayload("message_stop", Nil, Nil))>>
EvPing == <<EventLine("ping")>>
EvComment == <<CommentLine("keep-alive")>>
EvDone == <<DataLine(RawPayload("[DONE]"))>>
EvEmptyData == <<DataLine(RawPayload(""))>>
EvText == <<DataLine(RawPayload("hello"))>>
EvVendorUsageUpdate ==
  <<DataLine(JsonPayload("usage_update", Nil, Some(UsageCountsOf(1, 1, 2))))>>
EvTwoData ==
  <<DataLine(JsonPayload("content_block_delta", Nil, Nil)), DataLine(RawPayload("hello"))>>

\* AnthropicProvider.processSSEEvent: the first data line whose payload is
\* neither empty nor [DONE] decides; a message_stop that carries
\* message.usage becomes a usage_update event, anything else is re-emitted
\* as "data: <payload>\n\n"; an event without such a line yields nil.
RECURSIVE processSSEEventFrom(_, _)
processSSEEventFrom(lines, i) ==
  IF i > Len(lines) THEN Nil
  ELSE LET line == lines[i] IN
       IF line.prefix # "data: " THEN processSSEEventFrom(lines, i + 1)
       ELSE LET data == line.body IN
            IF (~data.json) /\ data.raw \in {"", "[DONE]"}
              THEN processSSEEventFrom(lines, i + 1)
            ELSE IF data.json /\ data.type = "message_stop" /\ ~IsNil(data.message)
              THEN LET usage == Get(data.message) IN
                   Some(<<DataLine(JsonPayload("usage_update", Nil,
                          Some(UsageCountsOf(usage.input_tokens, usage.output_tokens,
                                             usage.input_tokens + usage.output_tokens))))>>)
            ELSE Some(<<DataLine(data)>>)

processSSEEvent(eventText) == processSSEEventFrom(eventText, 1)

\* strings.Contains(dataStr, "usage_update")
ContainsUsageUpdate(data) ==
  \E i \in 1..Len(data) :
     data[i].body.type = "usage_update" \/ data[i].body.raw = "usage_update"

\* LLMService.extractUsageFromSSE: nil unless some data line decodes to a
\* JSON object whose type is usage_update; absent usage fields decode to 0.
RECURSIVE extractUsageFrom(_, _)
extractUsageFrom(lines, i) ==
  IF i > Len(lines) THEN Nil
  ELSE LET line == lines[i] IN
       IF line.prefix = "data: " /\ line.body.json /\ line.body.type = "usage_update"
         THEN IF IsNil(line.body.usage) THEN Some(UsageCountsOf(0, 0, 0))
              ELSE Some(Get(line.body.usage))
       ELSE extractUsageFrom(lines, i + 1)

extractUsageFromSSE(data) ==
  IF ~ContainsUsageUpdate(data) THEN Nil ELSE extractUsageFrom(data, 1)

\* The synthetic event the reader emits on a read error other than EOF.
ErrorEvent == <<DataLine(RawPayload("{\"error\": \"read failed\"}"))>>


\* ------------------------------------------------ durable store and cache
Keys == {"k1"}                 \* access keys that exist in the durable store
KeyValues == Keys \cup {"kx"}  \* key values a caller may present
ModelIDs == {"m1"}             \* active models of the key's provider
\* The vendors of the seed and the one LLMService.initializeProviders registers.
ProviderTypes == {"anthropic", "openai"}
RegisteredProviders == {"anthropic"}
\* The rows of llm_models: m1 is active, m2 was retired, m3 is of another vendor.
LLMModels ==
  {[provider |-> "anthropic", model_id |-> "m1", status |-> "active"],
   [provider |-> "anthropic", model_id |-> "m2", status |-> "inactive"],
   [provider |-> "openai", model_id |-> "m3", status |-> "active"]}
InputCostPer1K == 3            \* price of model m1, thousandths of a dollar per 1K tokens
OutputCostPer1K == 15

\* time.Time.Before for the optional ExpiresAt of a key
Expired(expiresAt, t) == ~IsNil(expiresAt) /\ Get(expiresAt) < t

\* ------------------------------------------------- float64 arithmetic
\* A non-negative float64 is [m, e]: the natural number m times 2^e, where
\* m has exactly MantissaBits bits, or is empty for zero.  A natural number
\* is a sequence of limbs in base LimbBase, most significant first, without
\* leading zeros, so that no product of the arithmetic leaves 32 bits.
MantissaBits == 53
LimbBits == 15
LimbBase == 2 ^ LimbBits
GuardLimbs == 5

Zeros(n) == [i \in 1..n |-> 0]
Zero64 == [m |-> <<>>, e |-> 0]

RECURSIVE Strip(_)
Strip(ls) == IF ls # <<>> /\ Head(ls) = 0 THEN Strip(Tail(ls)) ELSE ls

\* The number of bits of a natural number
BitLen(ls) ==
  LET s == Strip(ls) IN
  IF s = <<>> THEN 0
  ELSE LimbBits * (Len(s) - 1)
       + CHOOSE k \in 1..LimbBits : 2 ^ (k - 1) <= s[1] /\ s[1] < 2 ^ k

\* ls * t for t < LimbBase: from the last limb on, with a carry
RECURSIVE MulFrom(_, _, _, _, _)
MulFrom(ls, t, i, carry, out) ==
  IF i = 0 THEN Strip(<<carry>> \o out)
  ELSE LET d == ls[i] * t + carry IN
       MulFrom(ls, t, i - 1, d \div LimbBase, <<d % LimbBase>> \o out)

MulSmall(ls, t) == MulFrom(ls, t, Len(ls), 0, <<>>)

\* ls divided by d <= LimbBase: long division, quotient and remainder
RECURSIVE DivFrom(_, _, _, _, _)
DivFrom(ls, d, i, rem, q) ==
  IF i > Len(ls) THEN [q |-> Strip(q), rem |-> rem]
  ELSE LET r == rem * LimbBase + ls[i] IN
       DivFrom(ls, d, i + 1, r % d, Append(q, r \div d))

DivSmall(ls, d) == DivFrom(ls, d, 1, 0, <<>>)

\* a + b for limb sequences of the same length
RECURSIVE AddFrom(_, _, _, _, _)
AddFrom(a, b, i, carry, out) ==
  IF i = 0 THEN Strip(<<carry>> \o out)
  ELSE LET d == a[i] + b[i] + carry IN
       AddFrom(a, b, i - 1, d \div LimbBase, <<d % LimbBase>> \o out)

AddBig(a, b) ==
  LET n == IF Len(a) > Len(b) THEN Len(a) ELSE Len(b) IN
  AddFrom(Zeros(n - Len(a)) \o a, Zeros(n - Len(b)) \o b, n, 0, <<>>)

\* ls * 2^s
ShiftLeft(ls, s) ==
  Strip(MulSmall(ls, 2 ^ (s % LimbBits)) \o Zeros(s \div LimbBits))

\* ls \div 2^s, and whether a bit was lost
ShiftRight(ls, s) ==
  LET whole == s \div LimbBits
      kept == SubSeq(ls, 1, Len(ls) - whole)
      r == DivSmall(kept, 2 ^ (s % LimbBits))
  IN [q |-> r.q,
      lost |-> r.rem # 0 \/ \E i \in (Len(ls) - whole + 1)..Len(ls) : ls[i] # 0]

\* The float64 nearest to ls * 2^e, ties to even; sticky says that the
\* exact value has further bits below ls.
Round(ls, e, sticky) ==
  LET n == BitLen(ls) IN
  IF n = 0 THEN Zero64
  ELSE IF n <= MantissaBits
  THEN [m |-> ShiftLeft(ls, MantissaBits - n), e |-> e - (MantissaBits - n)]
  ELSE LET r == ShiftRight(Strip(ls), n - MantissaBits - 1)
           h == DivSmall(r.q, 2)
           up == h.rem = 1 /\ (r.lost \/ sticky \/ h.q[Len(h.q)] % 2 = 1)
           m == IF up THEN AddBig(h.q, <<1>>) ELSE h.q
       IN IF BitLen(m) > MantissaBits
          THEN [m |-> DivSmall(m, 2).q, e |-> e + (n - MantissaBits) + 1]
          ELSE [m |-> m, e |-> e + (n - MantissaBits)]

\* The exact sum x + y, as a natural number and an exponent
ExactAdd(x, y) ==
  LET e == IF x.e < y.e THEN x.e ELSE y.e IN
  IF x.m = <<>> THEN y
  ELSE IF y.m = <<>> THEN x
  ELSE [m |-> AddBig(ShiftLeft(x.m, x.e - e), ShiftLeft(y.m, y.e - e)), e |-> e]

\* float64(n) for a natural n < LimbBase
Float64(n) == Round(<<n>>, 0, FALSE)

\* x + y, x * float64(t) and x / float64(d) in float64
FAdd(x, y) == LET z == ExactAdd(x, y) IN Round(z.m, z.e, FALSE)
FMul(x, t) == Round(MulSmall(x.m, t), x.e, FALSE)
FDiv(x, d) ==
  LET r == DivSmall(x.m \o Zeros(GuardLimbs), d) IN
  Round(r.q, x.e - GuardLimbs * LimbBits, r.rem # 0)

\* The rates of the model, the float64 literals 0.003 and 0.015: dollars
\* per thousand tokens, InputCostPer1K and OutputCostPer1K thousandths.
InputRate64 == FDiv(Float64(InputCostPer1K), 1000)
OutputRate64 == FDiv(Float64(OutputCostPer1K), 1000)

CalculateCost_Free(usage) ==
  [input_cost |-> Zero64, output_cost |-> Zero64, total_cost |-> Zero64]

\* AnthropicProvider.CalculateCost, in float64 as the code evaluates it:
\* float64(tokens) * rate / 1000.0 for each side, and the sum of the two.
CalculateCost(usage) ==
  LET inputCost == FDiv(FMul(InputRate64, usage.input_tokens), 1000)
      outputCost == FDiv(FMul(OutputRate64, usage.output_tokens), 1000)
  IN [input_cost |-> inputCost, output_cost |-> outputCost,
      total_cost |-> FAdd(inputCost, outputCost)]

\* Mutant of NewRequestLog: the record is created already completed.
NewRequestLog_Completed(keyID, call) ==
  [api_key_id |-> keyID, request |-> call, status |-> "completed", created |-> "today",
   input_tokens |-> 0, output_tokens |-> 0, total_tokens |-> 0,
   input_cost |-> Zero64, output_cost |-> Zero64, total_cost |-> Zero64,
   http_status |-> 0, error_message |-> ""]

\* The row LLMService.createRequestLog inserts.
NewRequestLog(keyID, call) ==
  [api_key_id |-> keyID, request |-> call, status |-> "pending", created |-> "today",
   input_tokens |-> 0, output_tokens |-> 0, total_tokens |-> 0,
   input_cost |-> Zero64, output_cost |-> Zero64, total_cost |-> Zero64,
   http_status |-> 0, error_message |-> ""]

\* A row of an earlier call of the key, already finalized.
PriorLog(keyID, when) == [NewRequestLog(keyID, 0) EXCEPT !.status = "completed",
                                                        !.created = when,
                                                        !.http_status = 200]

updateRequestLogSuccess(ls, logID, usage, cost) ==
  [ls EXCEPT ![logID] = [@ EXCEPT !.status = "completed",
                                  !.input_tokens = usage.input_tokens,
                                  !.output_tokens = usage.output_tokens,
                                  !.total_tokens = usage.total_tokens,
                                  !.input_cost = cost.input_cost,
                                  !.output_cost = cost.output_cost,
                                  !.total_cost = cost.total_cost,
                                  !.http_status = 200]]

updateRequestLogError_Unrecorded(ls, logID, err) == ls

updateRequestLogError(ls, logID, err) ==
  [ls EXCEPT ![logID] = [@ EXCEPT !.status = "failed",
                                  !.error_message = err,
                                  !.http_status = 500]]

updateRequestLogStreamComplete_Skipped(ls, logID) == ls

updateRequestLogStreamComplete(ls, logID) ==
  [ls EXCEPT ![logID] = [@ EXCEPT !.status = "completed", !.http_status = 200]]

updateRequestLogStreamSuccess_NoUsage(ls, logID, usage, cost) ==
  updateRequestLogStreamComplete(ls, logID)

updateRequestLogStreamSuccess(ls, logID, usage, cost) ==
  updateRequestLogSuccess(ls, logID, usage, cost)

\* LLMService.getBatchUsageFromDB: both counts take every row of the key in
\* the window, whatever its status.
getBatchUsageFromDB(ls, keyID) ==
  [DailyCount |-> Cardinality({i \in DOMAIN ls :
                      ls[i].api_key_id = keyID /\ ls[i].created = "today"}),
   MonthlyCount |-> Cardinality({i \in DOMAIN ls :
                      ls[i].api_key_id = keyID /\ ls[i].created \in {"today", "month"}})]

\* 24 * time.Hour, in hours: instants are counted in hours since the zero
\* time, which is a midnight of UTC.
DayHours == 24

\* Mutant of Truncate: the instant is rounded down on the wall clock of the
\* time's location.
Truncate_WallClock(t, d, loc) == ((t + loc) \div d) * d - loc

\* time.Time.Truncate(d): t rounded down to a multiple of d since the zero
\* time, as an absolute duration; the location of t plays no part.
Truncate(t, d, loc) == t - (t % d)

\* LLMService.getBatchUsageFromDB, the daily window it asks the store for:
\* today := now.Truncate(24 * time.Hour); tomorrow := today.Add(24 * time.Hour)
DailyWindow(t, loc) ==
  LET today == Truncate(t, DayHours, loc)
      tomorrow == today + DayHours
  IN [today |-> today, tomorrow |-> tomorrow]

\* Mutant of DailyLimitExceeded: the ceiling itself is still admitted.
DailyLimitExceeded_OffByOne(key, usage) ==
  key.DailyRequestLimit > 0 /\ usage.DailyCount > key.DailyRequestLimit

\* The two ceiling comparisons of validateUsageLimitsOptimized(WithUsage).
DailyLimitExceeded(key, usage) ==
  key.DailyRequestLimit > 0 /\ usage.DailyCount >= key.DailyRequestLimit

MonthlyLimitExceeded(key, usage) ==
  key.MonthlyRequestLimit > 0 /\ usage.MonthlyCount >= key.MonthlyRequestLimit

\* Mutant of HasLimits: a usage snapshot is fetched for every key.
HasLimits_Always(key) == TRUE

\* dbAPIKey.DailyRequestLimit > 0 || dbAPIKey.MonthlyRequestLimit > 0
HasLimits(key) == key.DailyRequestLimit > 0 \/ key.MonthlyRequestLimit > 0

\* Mutant of LimitError: the snapshot is compared with no ceiling.
LimitError_None(key, usage) == ""

\* The two comparisons of the snapshot with the ceilings, daily first.
LimitError(key, usage) ==
  IF DailyLimitExceeded(key, usage) THEN "daily request limit exceeded"
  ELSE IF MonthlyLimitExceeded(key, usage) THEN "monthly request limit exceeded"
  ELSE ""


\* ------------------------------------------------------------------ state
VARIABLES
  impl,          \* "part_004" or "llm.go": which copy of the orchestrator is built
  redis,         \* TRUE iff a cache backend is configured (CacheService.redis # nil)
  now,           \* wall-clock time
  location,      \* the server's time zone: hours its wall clock is ahead of UTC
  window,        \* optional daily window the last count of usage asked for
  inbound,       \* key-carrying headers and query parameter of the inbound request
  limiter,       \* the RateLimiter: rate, visitors by address, holder of mu
  allow,         \* each caller's position in RateLimiter.Allow, with its locals
  granted,       \* per address, the calls allowed and whether one was refused
                 \* since its window began; the moves of the clock so far
  apiKeys,       \* durable store: key value -> APIKey row
  logs,          \* durable store: table llm_request_logs, row id = index
  cacheAPIKey,   \* cache backend: "api_key:<value>" -> optional APIKeyCacheEntry
  cacheUsage,    \* cache backend: "usage:<id>" -> optional UsageCacheEntry
  pc,            \* position of the handler goroutine of each call
  req,           \* inbound request of each call
  reqCtx,        \* optional LLMRequestContext (the validated key) of each call
  logID,         \* requestLog.ID of each call, 0 before createRequestLog
  callErr,       \* error returned by the adapter, "" when none
  response,      \* optional neutral response usage of a synchronous call
  result,        \* what the caller received: HTTP status, error type, message
  upstreamSent,  \* vendor HTTP requests sent for each call
  usageSnap,     \* optional UsageCounts the quota check of each call compared
  usageSource,   \* where that snapshot came from: "none", "cache" or "db"
  upstream,      \* events of the vendor stream and how its body ends
  readPos,       \* events of the vendor stream already read
  bodyClosed,    \* httpResp.Body.Close() has run
  readerPc,      \* position of the adapter's reader goroutine
  readerMsg,     \* event the reader is about to send
  streamChan,    \* adapter -> relay channel: [buf, closed]
  relayPc,       \* position of the relay goroutine
  relayData,     \* event the relay is about to forward
  finalUsage,    \* optional usage captured by the relay
  wrappedChan,   \* relay -> handler channel: [buf, closed]
  cancelled,     \* the inbound request's context is done (client disconnected)
  clientOut,     \* events written to the client's response
  httpResp,      \* optional vendor answer (status, raw body) of a synchronous call
  vendorReq,     \* optional vendor payload built for the upstream request
  wire,          \* bytes of an upstream response body
  wirePos,       \* bytes of wire that Body.Read has returned
  remainder,     \* the reader's buffered partial event
  emitted        \* events the reader has sent, each as its bytes

storeVars == <<impl, redis, now, location, window, inbound, limiter, allow, granted,
              apiKeys, logs, cacheAPIKey, cacheUsage>>
callVars == <<pc, req, reqCtx, logID, callErr, response, result, upstreamSent, usageSnap, usageSource>>
streamVars == <<upstream, readPos, bodyClosed, readerPc, readerMsg, streamChan,
                relayPc, relayData, finalUsage, wrappedChan, cancelled, clientOut>>
wireVars == <<wire, wirePos, remainder, emitted>>
vars == <<storeVars, callVars, streamVars, wireVars, httpResp, vendorReq>>

EmptyChan == [buf |-> <<>>, closed |-> FALSE]
\* The optional fields of a ChatCompletionRequest: pointers, interface and
\* map are Nil when absent, the string System is "" when absent.
NoOpts == [max_tokens |-> Nil, temperature |-> Nil, top_p |-> Nil, system |-> "",
           stop |-> Nil, metadata |-> Nil]
NoRequest == [apiKey |-> "", bindOk |-> TRUE, model |-> "", messages |-> <<>>, stream |-> FALSE,
              opts |-> NoOpts]
NoResult == [status |-> 0, type |-> "", message |-> ""]
\* Header and query values are sequences of characters; an absent header or
\* parameter reads as the empty string (gin's GetHeader and Query).
NoInbound == [Authorization |-> <<>>, XApiKey |-> <<>>, api_key |-> <<>>]
NoUpstream == [events |-> <<>>, end |-> "eof"]

GoodMessages == <<[Role |-> "user", Content |-> "hi"]>>

\* ------------------------------------------------------------------- Init
\* No rate limiter takes part.
InitNoLimiter ==
  /\ limiter = [rate |-> 1, visitors |-> <<>>, mu |-> 0]
  /\ allow = <<>>
  /\ granted = [count |-> <<>>, refused |-> <<>>, jumps |-> 0]

InitStore ==
  /\ impl \in {"part_004", "llm.go"}
  /\ redis \in BOOLEAN
  /\ now = 1 /\ location = 0 /\ window = Nil /\ inbound = NoInbound
  /\ InitNoLimiter
  /\ \E st \in {"active", "inactive"}, ex \in {Nil, Some(1)},
        d \in 0..MaxLimit, m \in {0, MaxLimit} :
       apiKeys = [k \in Keys |->
                    [ID |-> k, Status |-> st, ExpiresAt |-> ex,
                     DailyRequestLimit |-> d, MonthlyRequestLimit |-> m,
                     ProviderType |-> "anthropic"]]
  /\ \E n \in 0..MaxPrior : logs = [i \in 1..n |-> PriorLog("k1", "today")]

\* The cache before any entry was written.
InitCacheCold ==
  /\ cacheAPIKey = [v \in KeyValues |-> Nil]
  /\ cacheUsage = [k \in Keys |-> Nil]

\* The cache as CacheService.WarmupAPIKeyCache and earlier calls can have
\* left it: an entry for an active key, and a usage snapshot taken when the
\* key had no rows or the rows it has now.
InitCacheWarm ==
  /\ cacheAPIKey \in [KeyValues -> {Nil} \cup
         {Some([APIKey |-> apiKeys[k], ExpiresAt |-> apiKeys[k].ExpiresAt]) : k \in Keys}]
  /\ \A v \in KeyValues :
       ~IsNil(cacheAPIKey[v]) =>
          redis /\ v \in Keys /\ Get(cacheAPIKey[v]).APIKey = apiKeys[v]
                /\ apiKeys[v].Status = "active"
  /\ cacheUsage \in [Keys -> {Nil} \cup {Some([DailyCount |-> n, MonthlyCount |-> n]) :
                                            n \in {0, Len(logs)}}]
  /\ \A k \in Keys : ~IsNil(cacheUsage[k]) => redis

InitCalls ==
  /\ pc = [c \in Calls |-> "idle"]
  /\ req = [c \in Calls |-> NoRequest]
  /\ reqCtx = [c \in Calls |-> Nil]
  /\ logID = [c \in Calls |-> 0]
  /\ callErr = [c \in Calls |-> ""]
  /\ response = [c \in Calls |-> Nil]
  /\ httpResp = [c \in Calls |-> Nil]
  /\ vendorReq = [c \in Calls |-> Nil]
  /\ result = [c \in Calls |-> NoResult]
  /\ upstreamSent = [c \in Calls |-> 0]
  /\ usageSnap = [c \in Calls |-> Nil]
  /\ usageSource = [c \in Calls |-> "none"]

InitStreams ==
  /\ upstream = [c \in Calls |-> NoUpstream]
  /\ readPos = [c \in Calls |-> 0]
  /\ bodyClosed = [c \in Calls |-> FALSE]
  /\ readerPc = [c \in Calls |-> "none"]
  /\ readerMsg = [c \in Calls |-> Nil]
  /\ streamChan = [c \in Calls |-> EmptyChan]
  /\ relayPc = [c \in Calls |-> "none"]
  /\ relayData = [c \in Calls |-> Nil]
  /\ finalUsage = [c \in Calls |-> Nil]
  /\ wrappedChan = [c \in Calls |-> EmptyChan]
  /\ cancelled = [c \in Calls |-> FALSE]
  /\ clientOut = [c \in Calls |-> <<>>]

\* No body is being read at byte level.
InitWire == wire = <<>> /\ wirePos = 0 /\ remainder = <<>> /\ emitted = <<>>

Init == InitStore /\ InitCacheWarm /\ InitCalls /\ InitStreams /\ InitWire

\* ------------------------------------------------------- Credential Cache
\* CacheService.GetAPIKey: a miss without backend or entry; an entry whose
\* ExpiresAt is before now is deleted and reported as a miss.
GetAPIKeyFound_NoExpiryCheck(v) == redis /\ ~IsNil(cacheAPIKey[v])

GetAPIKeyFound(v) ==
  redis /\ ~IsNil(cacheAPIKey[v]) /\ ~Expired(Get(cacheAPIKey[v]).ExpiresAt, now)

GetAPIKeyEffect(v) ==
  IF redis /\ ~IsNil(cacheAPIKey[v]) /\ Expired(Get(cacheAPIKey[v]).ExpiresAt, now)
    THEN [cacheAPIKey EXCEPT ![v] = Nil]
    ELSE cacheAPIKey

\* Mutant of AfterCacheWrite: a failed cache write aborts the validation.
AfterCacheWrite_Abort(err, ok) == IF redis /\ ~ok THEN "failed to write cache" ELSE err

\* ValidateAPIKeyOptimized and validateUsageLimitsOptimized after a cache
\* write: its error is printed and the flow goes on to its result err.
AfterCacheWrite(err, ok) == err

\* CacheService.SetAPIKey; ok = FALSE is a failed write to the backend.
SetAPIKey(ca, v, dbAPIKey, ok) ==
  IF redis /\ ok
    THEN [ca EXCEPT ![v] = Some([APIKey |-> dbAPIKey, ExpiresAt |-> dbAPIKey.ExpiresAt])]
    ELSE ca

\* The keys of the cache backend: "api_key:<value>" and "usage:<id>".
CacheKeys ==
  {[kind |-> "api_key", id |-> v] : v \in KeyValues}
    \cup {[kind |-> "usage", id |-> k] : k \in Keys}

\* CacheService.GetBatch: without backend an error; otherwise the keys that
\* have an entry (ok = FALSE: the pipeline fails).
GetBatch(keys, ok) ==
  IF ~redis THEN [err |-> "redis client is nil", found |-> {}]
  ELSE IF keys = {} THEN [err |-> "", found |-> {}]
  ELSE IF ~ok THEN [err |-> "pipeline failed", found |-> {}]
  ELSE [err |-> "",
        found |-> {k \in keys : IF k.kind = "api_key" THEN ~IsNil(cacheAPIKey[k.id])
                                 ELSE ~IsNil(cacheUsage[k.id])}]

\* Mutant of GetUsageCountFound: every lookup of a snapshot is a miss.
GetUsageCountFound_Never(cu, keyID) == FALSE

\* CacheService.GetUsageCount
GetUsageCountFound(cu, keyID) == redis /\ ~IsNil(cu[keyID])

\* CacheService.SetUsageCount
SetUsageCount(cu, keyID, usage, ok) ==
  IF redis /\ ok THEN [cu EXCEPT ![keyID] = Some(usage)] ELSE cu


\* Mutant of validateUsageLimitsOptimizedWithUsage: a failed count query is
\* ignored and the call goes on without a snapshot.
validateUsageLimitsOptimizedWithUsage_FailOpen(dbAPIKey, usage, cu, q, w) ==
  LET need == HasLimits(dbAPIKey) /\ IsNil(usage)
      hit == need /\ GetUsageCountFound(cu, dbAPIKey.ID)
      fromDB == need /\ ~hit
      u == IF ~need THEN usage
           ELSE IF hit THEN cu[dbAPIKey.ID]
           ELSE IF q THEN Some(getBatchUsageFromDB(logs, dbAPIKey.ID))
           ELSE Nil
  IN [err |-> IF FALSE THEN "failed to check usage limits"
              ELSE AfterCacheWrite(IF ~IsNil(u) THEN LimitError(dbAPIKey, Get(u)) ELSE "",
                                   ~fromDB \/ w),
      cacheUsage |-> IF fromDB /\ q THEN SetUsageCount(cu, dbAPIKey.ID, Get(u), w) ELSE cu,
      usage |-> u,
      source |-> IF hit THEN "cache" ELSE IF fromDB /\ q THEN "db" ELSE "none"]

\* -------------------------------------------------- authentication / quota
\* LLMService.validateUsageLimitsOptimizedWithUsage (part_004) and, with
\* usage = Nil, LLMService.validateUsageLimitsOptimized (llm.go): when the
\* key has a ceiling and no snapshot was passed in, take the cached snapshot
\* or else count in the durable store (q = FALSE: the query fails) and cache
\* the counts (w = FALSE: the cache write fails); then compare.
validateUsageLimitsOptimizedWithUsage(dbAPIKey, usage, cu, q, w) ==
  LET need == HasLimits(dbAPIKey) /\ IsNil(usage)
      hit == need /\ GetUsageCountFound(cu, dbAPIKey.ID)
      fromDB == need /\ ~hit
      u == IF ~need THEN usage
           ELSE IF hit THEN cu[dbAPIKey.ID]
           ELSE IF q THEN Some(getBatchUsageFromDB(logs, dbAPIKey.ID))
           ELSE Nil
  IN [err |-> IF fromDB /\ ~q THEN "failed to check usage limits"
              ELSE AfterCacheWrite(IF ~IsNil(u) THEN LimitError(dbAPIKey, Get(u)) ELSE "",
                                   ~fromDB \/ w),
      cacheUsage |-> IF fromDB /\ q THEN SetUsageCount(cu, dbAPIKey.ID, Get(u), w) ELSE cu,
      usage |-> u,
      source |-> IF hit THEN "cache" ELSE IF fromDB /\ q THEN "db" ELSE "none"]

\* The durable-store lookup of ValidateAPIKeyOptimized:
\* First(&dbAPIKey, "key_value = ? AND status = ?", apiKey, "active")
KeyFound(v) == v \in Keys /\ apiKeys[v].Status = "active"

\* LLMService.ValidateAPIKeyOptimized of part_004 after the durable-store
\* lookup returned the record dbAPIKey, with the cache entries ca: the expiry
\* check, the prefetch of the counts, the cache write and the usage check.
ValidateFromStoreNew(v, dbAPIKey, ca0, q1, q2, w1, w2) ==
  IF Expired(dbAPIKey.ExpiresAt, now)
    THEN [err |-> "API key expired", key |-> Nil, cacheAPIKey |-> ca0,
          cacheUsage |-> cacheUsage, usage |-> Nil, source |-> "none"]
  ELSE LET prefetch == HasLimits(dbAPIKey)
           usage == IF prefetch /\ q1
                      THEN Some(getBatchUsageFromDB(logs, dbAPIKey.ID)) ELSE Nil
           ca == SetAPIKey(ca0, v, dbAPIKey, w1)
           cu == IF prefetch /\ q1
                   THEN SetUsageCount(cacheUsage, dbAPIKey.ID, Get(usage), w1)
                   ELSE cacheUsage
           r == validateUsageLimitsOptimizedWithUsage(dbAPIKey, usage, cu, q2, w2)
       IN [err |-> AfterCacheWrite(r.err, w1), key |-> Some(dbAPIKey), cacheAPIKey |-> ca,
           cacheUsage |-> r.cacheUsage, usage |-> r.usage,
           source |-> IF prefetch /\ q1 THEN "db" ELSE r.source]

\* The same part of LLMService.ValidateAPIKeyOptimized of llm.go: the key is
\* cached, then validateUsageLimitsOptimized fetches the snapshot.
ValidateFromStoreOld(v, dbAPIKey, ca0, q1, q2, w1, w2) ==
  IF Expired(dbAPIKey.ExpiresAt, now)
    THEN [err |-> "API key expired", key |-> Nil, cacheAPIKey |-> ca0,
          cacheUsage |-> cacheUsage, usage |-> Nil, source |-> "none"]
  ELSE LET ca == SetAPIKey(ca0, v, dbAPIKey, w1)
           r == validateUsageLimitsOptimizedWithUsage(dbAPIKey, Nil, cacheUsage, q2, w2)
       IN [err |-> AfterCacheWrite(r.err, w1), key |-> Some(dbAPIKey), cacheAPIKey |-> ca,
           cacheUsage |-> r.cacheUsage, usage |-> r.usage, source |-> r.source]

ValidateFromStore(v, dbAPIKey, ca0, q1, q2, w1, w2) ==
  IF impl = "part_004" THEN ValidateFromStoreNew(v, dbAPIKey, ca0, q1, q2, w1, w2)
  ELSE ValidateFromStoreOld(v, dbAPIKey, ca0, q1, q2, w1, w2)

\* LLMService.ValidateAPIKeyOptimized of part_004.  q1, q2: the first and
\* second usage query succeed; w1, w2: the first and second cache write
\* succeed.
ValidateAPIKeyOptimizedNew(v, q1, q2, w1, w2) ==
  IF GetAPIKeyFound(v)
    THEN LET r == validateUsageLimitsOptimizedWithUsage(
                    Get(cacheAPIKey[v]).APIKey, Nil, cacheUsage, q2, w2)
         IN [err |-> r.err, key |-> Some(Get(cacheAPIKey[v]).APIKey),
             cacheAPIKey |-> cacheAPIKey, cacheUsage |-> r.cacheUsage,
             usage |-> r.usage, source |-> r.source]
  ELSE IF ~KeyFound(v)
    THEN [err |-> "invalid API key", key |-> Nil, cacheAPIKey |-> GetAPIKeyEffect(v),
          cacheUsage |-> cacheUsage, usage |-> Nil, source |-> "none"]
  ELSE ValidateFromStoreNew(v, apiKeys[v], GetAPIKeyEffect(v), q1, q2, w1, w2)

\* LLMService.ValidateAPIKeyOptimized of llm.go: the key is cached first,
\* then validateUsageLimitsOptimized fetches the snapshot.
ValidateAPIKeyOptimizedOld(v, q1, q2, w1, w2) ==
  IF GetAPIKeyFound(v)
    THEN LET r == validateUsageLimitsOptimizedWithUsage(
                    Get(cacheAPIKey[v]).APIKey, Nil, cacheUsage, q2, w2)
         IN [err |-> r.err, key |-> Some(Get(cacheAPIKey[v]).APIKey),
             cacheAPIKey |-> cacheAPIKey, cacheUsage |-> r.cacheUsage,
             usage |-> r.usage, source |-> r.source]
  ELSE IF ~KeyFound(v)
    THEN [err |-> "invalid API key", key |-> Nil, cacheAPIKey |-> GetAPIKeyEffect(v),
          cacheUsage |-> cacheUsage, usage |-> Nil, source |-> "none"]
  ELSE ValidateFromStoreOld(v, apiKeys[v], GetAPIKeyEffect(v), q1, q2, w1, w2)

ValidateAPIKeyOptimized(v, q1, q2, w1, w2) ==
  IF impl = "part_004" THEN ValidateAPIKeyOptimizedNew(v, q1, q2, w1, w2)
  ELSE ValidateAPIKeyOptimizedOld(v, q1, q2, w1, w2)

\* ------------------------------------------------------------ HTTP handler
\* strings.HasPrefix and strings.TrimPrefix
HasPrefix(str, prefix) ==
  Len(str) >= Len(prefix) /\ SubSeq(str, 1, Len(prefix)) = prefix

TrimPrefix(str, prefix) ==
  IF HasPrefix(str, prefix) THEN SubSeq(str, Len(prefix) + 1, Len(str)) ELSE str

BearerPrefix == <<"B", "e", "a", "r", "e", "r", " ">>

\* Spaces and tabs at both ends of a header line's value are dropped when
\* the server reads the request (optional whitespace of a header field).
RECURSIVE TrimHeaderLeft(_)
TrimHeaderLeft(str) ==
  IF str # <<>> /\ Head(str) \in {" ", "\t"} THEN TrimHeaderLeft(Tail(str)) ELSE str

RECURSIVE TrimHeaderRight(_)
TrimHeaderRight(str) ==
  IF str # <<>> /\ str[Len(str)] \in {" ", "\t"}
    THEN TrimHeaderRight(SubSeq(str, 1, Len(str) - 1)) ELSE str

\* Mutant of GetHeader: the value is handed over as it was on the wire.
GetHeader_Raw(value) == value

\* c.GetHeader(name) for a header sent with this value: the value the
\* server stored, without the whitespace around it.
GetHeader(value) == TrimHeaderRight(TrimHeaderLeft(value))

\* LLMHandler.extractAPIKey: the Authorization header when it starts with
\* "Bearer ", else the x-api-key header when it is not empty, else the
\* api_key query parameter.
extractAPIKey(in) ==
  LET authHeader == GetHeader(in.Authorization)
      apiKey == GetHeader(in.XApiKey)
  IN IF authHeader # <<>> /\ HasPrefix(authHeader, BearerPrefix)
       THEN TrimPrefix(authHeader, BearerPrefix)
     ELSE IF apiKey # <<>> THEN apiKey
     ELSE in.api_key

\* The characters of the key values callers present; any other text is a
\* key the durable store does not hold, as kx is.
KeyChars == [v \in KeyValues |-> IF v = "k1" THEN <<"k", "1">> ELSE <<"k", "x">>]
KeyOf(chars) ==
  IF \E v \in KeyValues : KeyChars[v] = chars
    THEN CHOOSE v \in KeyValues : KeyChars[v] = chars
    ELSE "kx"

\* LLMHandler.ChatCompletion, lines 46-56: extract the key; an empty key is
\* answered 401 "API key is required".
HandlerExtract(c) ==
  /\ pc[c] = "idle"
  /\ LET apiKey == extractAPIKey(inbound) IN
       IF apiKey = <<>>
         THEN /\ result' = [result EXCEPT ![c] =
                              [status |-> 401, type |-> "authentication_error",
                               message |-> "API key is required"]]
              /\ pc' = [pc EXCEPT ![c] = "done"]
              /\ UNCHANGED req
         ELSE /\ req' = [req EXCEPT ![c].apiKey = KeyOf(apiKey)]
              /\ pc' = [pc EXCEPT ![c] = "validate"]
              /\ UNCHANGED result
  /\ UNCHANGED <<storeVars, reqCtx, logID, callErr, response, upstreamSent,
                 usageSnap, usageSource, streamVars,
                 wireVars, httpResp, vendorReq>>

\* A call arrives with the access key LLMHandler.extractAPIKey found.
Arrive(c, keyValues) ==
  /\ pc[c] = "idle"
  /\ \E v \in keyValues : req' = [req EXCEPT ![c].apiKey = v]
  /\ pc' = [pc EXCEPT ![c] = "validate"]
  /\ UNCHANGED <<storeVars, reqCtx, logID, callErr, response, result, upstreamSent,
                 usageSnap, usageSource, streamVars,
                 wireVars, httpResp, vendorReq>>

\* Mutant of AfterValidate: the handler does not return after the 401.
AfterValidate_NoReturn(err) == "bind"

\* LLMHandler.ChatCompletion after ValidateAPIKeyOptimized: an error ends
\* the call, otherwise the body is parsed next.
AfterValidate(err) == IF err # "" THEN "done" ELSE "bind"

\* LLMHandler.ChatCompletion, lines 58-68: validate the key; on error answer
\* 401 authentication_error and return.  oks are the outcomes the store
\* queries and cache writes of the validation may have (FALSE: failure).
HandlerValidate(c, oks) ==
  /\ pc[c] = "validate"
  /\ \E q1 \in oks, q2 \in oks, w1 \in oks, w2 \in oks :
       LET r == ValidateAPIKeyOptimized(req[c].apiKey, q1, q2, w1, w2) IN
       /\ cacheAPIKey' = r.cacheAPIKey
       /\ cacheUsage' = r.cacheUsage
       /\ usageSnap' = [usageSnap EXCEPT ![c] = r.usage]
       /\ usageSource' = [usageSource EXCEPT ![c] = r.source]
       /\ reqCtx' = [reqCtx EXCEPT ![c] = IF r.err = "" THEN r.key ELSE Nil]
       /\ result' = [result EXCEPT ![c] =
                       IF r.err # ""
                         THEN [status |-> 401, type |-> "authentication_error",
                               message |-> r.err]
                         ELSE @]
       /\ pc' = [pc EXCEPT ![c] = AfterValidate(r.err)]
  /\ UNCHANGED <<impl, location, window, inbound, limiter, allow, granted, redis, now, apiKeys, logs, req, logID, callErr, response,
                 upstreamSent, streamVars,
                 wireVars, httpResp, vendorReq>>

\* ValidateAPIKeyOptimized up to the durable-store lookup, for the runs in
\* which other requests act between that lookup and the cache write: the
\* cache missed and First(&dbAPIKey, ...) returned the active record, held
\* in the local dbAPIKey (here reqCtx) until the validation goes on.
HandlerValidateLookup(c) ==
  /\ pc[c] = "validate"
  /\ ~GetAPIKeyFound(req[c].apiKey)
  /\ KeyFound(req[c].apiKey)
  /\ cacheAPIKey' = GetAPIKeyEffect(req[c].apiKey)
  /\ reqCtx' = [reqCtx EXCEPT ![c] = Some(apiKeys[req[c].apiKey])]
  /\ pc' = [pc EXCEPT ![c] = "validate_db"]
  /\ UNCHANGED <<impl, location, window, inbound, limiter, allow, granted, redis, now, apiKeys, logs, cacheUsage, req, logID, callErr,
                 response, result, upstreamSent, usageSnap, usageSource, streamVars,
                 wireVars, httpResp, vendorReq>>

\* ValidateAPIKeyOptimized from the expiry check on, with the record the
\* lookup returned, and the handler's answer (lines 58-68).
HandlerValidateFinish(c, oks) ==
  /\ pc[c] = "validate_db"
  /\ \E q1 \in oks, q2 \in oks, w1 \in oks, w2 \in oks :
       LET r == ValidateFromStore(req[c].apiKey, Get(reqCtx[c]), cacheAPIKey,
                                  q1, q2, w1, w2) IN
       /\ cacheAPIKey' = r.cacheAPIKey
       /\ cacheUsage' = r.cacheUsage
       /\ usageSnap' = [usageSnap EXCEPT ![c] = r.usage]
       /\ usageSource' = [usageSource EXCEPT ![c] = r.source]
       /\ reqCtx' = [reqCtx EXCEPT ![c] = IF r.err = "" THEN r.key ELSE Nil]
       /\ result' = [result EXCEPT ![c] =
                       IF r.err # ""
                         THEN [status |-> 401, type |-> "authentication_error",
                               message |-> r.err]
                         ELSE @]
       /\ pc' = [pc EXCEPT ![c] = AfterValidate(r.err)]
  /\ UNCHANGED <<impl, location, window, inbound, limiter, allow, granted, redis, now, apiKeys, logs, req, logID, callErr, response,
                 upstreamSent, streamVars,
                 wireVars, httpResp, vendorReq>>

\* APIKeyService.Update saving an authorization record with a status that
\* is not active (an administrative edit); no cache entry is touched.
APIKeyUpdate(k) ==
  /\ apiKeys[k].Status = "active"
  /\ \E st \in {"inactive", "revoked"} : apiKeys' = [apiKeys EXCEPT ![k].Status = st]
  /\ UNCHANGED <<impl, location, window, inbound, limiter, allow, granted, redis, now, logs, cacheAPIKey, cacheUsage, callVars, streamVars,
                 wireVars, httpResp, vendorReq>>


\* strings.Contains(err.Error(), sub) for the error texts of the model
ErrContains(err, sub) ==
  CASE sub = "validation" -> err \in {"request validation failed: messages are required",
                                      "request validation failed: role",
                                      "request validation failed: content cannot be empty",
                                      "request validation failed: first message must be from user",
                                      "request validation failed: model is required"}
    [] sub = "invalid" -> err \in {"invalid API key"}
    [] sub = "limit exceeded" -> err \in {"daily request limit exceeded",
                                          "monthly request limit exceeded"}
    [] sub = "not found" -> err \in {"model not found"}
    [] OTHER -> FALSE

\* LLMHandler.handleRegularCompletion, lines 97-119: status and type of an
\* error answer.
ErrorResponse(err) ==
  IF ErrContains(err, "invalid") \/ ErrContains(err, "validation")
    THEN [status |-> 400, type |-> "invalid_request_error", message |-> err]
  ELSE IF ErrContains(err, "limit exceeded")
    THEN [status |-> 429, type |-> "rate_limit_error", message |-> err]
  ELSE IF ErrContains(err, "not found")
    THEN [status |-> 404, type |-> "invalid_request_error", message |-> err]
  ELSE [status |-> 500, type |-> "api_error", message |-> err]

\* LLMHandler.handleStreamingCompletion, lines 136-148: the error event
\* written with status 200 when no source was returned.
StreamErrorResponse(err) ==
  IF ErrContains(err, "invalid") \/ ErrContains(err, "validation")
    THEN [status |-> 200, type |-> "invalid_request_error", message |-> err]
  ELSE IF ErrContains(err, "limit exceeded")
    THEN [status |-> 200, type |-> "rate_limit_error", message |-> err]
  ELSE [status |-> 200, type |-> "api_error", message |-> err]

AnswerError(c, err) ==
  IF req[c].stream THEN StreamErrorResponse(err) ELSE ErrorResponse(err)

\* Request bodies a caller may send.
Bodies ==
  {[model |-> m, messages |-> msgs, stream |-> s] :
     m \in ModelIDs \cup {"mx"}, msgs \in {GoodMessages, <<>>}, s \in BOOLEAN}

\* LLMHandler.ChatCompletion, lines 70-80: parse the body; a malformed body
\* is answered 400 before the service is called.
HandlerBind(c, bodies) ==
  /\ pc[c] = "bind"
  /\ \/ \E b \in bodies :
          /\ req' = [req EXCEPT ![c] = [apiKey |-> @.apiKey, bindOk |-> TRUE,
                                        model |-> b.model, messages |-> b.messages,
                                        stream |-> b.stream, opts |-> NoOpts]]
          /\ pc' = [pc EXCEPT ![c] = "resolve"]
          /\ UNCHANGED result
     \/ /\ req' = [req EXCEPT ![c].bindOk = FALSE]
        /\ pc' = [pc EXCEPT ![c] = "done"]
        /\ result' = [result EXCEPT ![c] =
             [status |-> 400, type |-> "invalid_request_error",
              message |-> "Invalid request body"]]
  /\ UNCHANGED <<storeVars, reqCtx, logID, callErr, response, upstreamSent,
                 usageSnap, usageSource, streamVars,
                 wireVars, httpResp, vendorReq>>

\* Mutant of GetModelByName: the status of the model is not looked at.
GetModelByName_AnyStatus(provider, modelName) ==
  IF \E m \in LLMModels : m.provider = provider /\ m.model_id = modelName
    THEN "" ELSE "model not found"

\* LLMService.GetModelByName: the row of the vendor with that model_id and
\* status active, else an error.
GetModelByName(provider, modelName) ==
  IF \E m \in LLMModels :
        m.provider = provider /\ m.model_id = modelName /\ m.status = "active"
    THEN "" ELSE "model not found"

\* s.providers[ctx.Provider.Type]
GetProvider(provider) ==
  IF provider \in RegisteredProviders THEN "" ELSE "provider not supported"

\* The opening of LLMService.ChatCompletion and StreamChatCompletion: the
\* model is resolved, then the adapter of the key's vendor is looked up.
ServiceResolve(c) ==
  /\ pc[c] = "resolve"
  /\ LET provider == Get(reqCtx[c]).ProviderType
         merr == GetModelByName(provider, req[c].model)
         err == IF merr # "" THEN merr ELSE GetProvider(provider)
     IN
     IF err # ""
       THEN /\ pc' = [pc EXCEPT ![c] = "done"]
            /\ result' = [result EXCEPT ![c] = AnswerError(c, err)]
       ELSE /\ pc' = [pc EXCEPT ![c] = "create"]
            /\ UNCHANGED result
  /\ UNCHANGED <<storeVars, req, reqCtx, logID, callErr, response, upstreamSent,
                 usageSnap, usageSource, streamVars,
                 wireVars, httpResp, vendorReq>>

\* LLMService.createRequestLog and its caller's error return; dbOk = FALSE
\* is a failed insert.
ServiceCreateLog(c, oks) ==
  /\ pc[c] = "create"
  /\ \E dbOk \in oks :
       IF dbOk
         THEN /\ logs' = Append(logs, NewRequestLog(Get(reqCtx[c]).ID, c))
              /\ logID' = [logID EXCEPT ![c] = Len(logs) + 1]
              /\ pc' = [pc EXCEPT ![c] = "call"]
              /\ UNCHANGED result
         ELSE /\ pc' = [pc EXCEPT ![c] = "done"]
              /\ result' = [result EXCEPT ![c] =
                              AnswerError(c, "failed to create request log")]
              /\ UNCHANGED <<logs, logID>>
  /\ UNCHANGED <<impl, location, window, inbound, limiter, allow, granted, redis, now, apiKeys, cacheAPIKey, cacheUsage, req, reqCtx,
                 callErr, response, upstreamSent, usageSnap, usageSource, streamVars,
                 wireVars, httpResp, vendorReq>>

\* Values of the optional fields of a request; 0 and the empty list are
\* values that are present.
RequestOpts ==
  [max_tokens : {Nil, Some(0), Some(1)}, temperature : {Nil, Some(0)},
   top_p : {Nil, Some(0)}, system : {"", "be brief"},
   stop : {Nil, Some(<<>>)}, metadata : {Nil, Some("user")}]

DefaultMaxTokens == 4096

\* One field of a vendor payload, or no field.  A JSON value v is Some(v),
\* the JSON null is Nil.
PayloadField(present, name, value) == IF present THEN name :> Some(value) ELSE <<>>

\* Mutant of TransformRequest: absent optional fields are emitted as null.
TransformRequest_Nulls(r) ==
  [f \in {"model", "messages", "max_tokens", "temperature", "top_p", "system",
          "stop_sequences", "stream", "metadata"} |->
     CASE f = "model" -> Some(r.model)
       [] f = "messages" -> Some(r.messages)
       [] f = "max_tokens" -> IF IsNil(r.opts.max_tokens) THEN Some(DefaultMaxTokens)
                              ELSE r.opts.max_tokens
       [] f = "temperature" -> r.opts.temperature
       [] f = "top_p" -> r.opts.top_p
       [] f = "system" -> IF r.opts.system = "" THEN Nil ELSE Some(r.opts.system)
       [] f = "stop_sequences" -> r.opts.stop
       [] f = "stream" -> IF r.stream THEN Some(TRUE) ELSE Nil
       [] f = "metadata" -> r.opts.metadata]

\* AnthropicProvider.TransformRequest: the vendor payload as a map from
\* field names to values.
TransformRequest(r) ==
  PayloadField(TRUE, "model", r.model)
  @@ PayloadField(TRUE, "messages", r.messages)
  @@ PayloadField(TRUE, "max_tokens", IF ~IsNil(r.opts.max_tokens) THEN Get(r.opts.max_tokens)
                                      ELSE DefaultMaxTokens)
  @@ PayloadField(~IsNil(r.opts.temperature), "temperature", Get(r.opts.temperature))
  @@ PayloadField(~IsNil(r.opts.top_p), "top_p", Get(r.opts.top_p))
  @@ PayloadField(r.opts.system # "", "system", r.opts.system)
  @@ PayloadField(~IsNil(r.opts.stop), "stop_sequences", Get(r.opts.stop))
  @@ PayloadField(r.stream, "stream", TRUE)
  @@ PayloadField(~IsNil(r.opts.metadata), "metadata", Get(r.opts.metadata))

\* Mutant of ValidateRequest: the rule on the first message is left out.
ValidateRequest_NoOrderRule(r) ==
  IF r.model = "" THEN "request validation failed: model is required"
  ELSE IF Len(r.messages) = 0 THEN "request validation failed: messages are required"
  ELSE IF \E i \in 1..Len(r.messages) : r.messages[i].Role \notin {"user", "assistant"}
    THEN "request validation failed: role"
  ELSE IF \E i \in 1..Len(r.messages) : r.messages[i].Content = ""
    THEN "request validation failed: content cannot be empty"
  ELSE ""

\* AnthropicProvider.ValidateRequest
ValidateRequest(r) ==
  IF r.model = "" THEN "request validation failed: model is required"
  ELSE IF Len(r.messages) = 0 THEN "request validation failed: messages are required"
  ELSE IF \E i \in 1..Len(r.messages) :
            /\ \A j \in 1..(i - 1) : r.messages[j].Role \in {"user", "assistant"}
                                     /\ r.messages[j].Content # ""
            /\ r.messages[i].Role \notin {"user", "assistant"}
    THEN "request validation failed: role"
  ELSE IF \E i \in 1..Len(r.messages) : r.messages[i].Content = ""
    THEN "request validation failed: content cannot be empty"
  ELSE IF r.messages[1].Role # "user"
    THEN "request validation failed: first message must be from user"
  ELSE ""

\* What the vendor does with one HTTP request.
\* What one vendor round trip can give: no answer at all (kind "transport"),
\* or an answer with a status and a raw body; usage is what the JSON
\* decoder reads out of the body of a success.
OkBody == "{\"usage\":{}}"
ErrorBodies == {"{\"error\":\"overloaded\"}", "busy"}
FailureStatuses == {300, 529}

HttpAnswer(status, body, usage) ==
  [kind |-> "http", status |-> status, body |-> body, usage |-> usage]

SyncOutcomes ==
  {[kind |-> "transport", status |-> 0, body |-> "", usage |-> VendorUsage(0, 0)]}
  \cup {HttpAnswer(st, b, VendorUsage(0, 0)) : st \in FailureStatuses, b \in ErrorBodies}
  \cup {HttpAnswer(200, OkBody, VendorUsage(i, MaxTokens)) : i \in {0, 1}}

\* anthropic.go line 198: the status codes that are not a success
StatusFails_Never(status) == FALSE

StatusFails(status) == status < 200 \/ status >= 300

\* anthropic.go line 199: fmt.Errorf("API request failed with status %d: %s", ...)
StatusError(status, body) ==
  "API request failed with status " \o ToString(status) \o ": " \o body

OutcomeError(o) ==
  CASE o.kind = "transport" -> "HTTP request failed"
    [] o.kind = "http" /\ StatusFails(o.status) -> StatusError(o.status, o.body)
    [] OTHER -> ""

\* Mutant of TransformResponse: the total leaves out the input tokens.
TransformResponse_TotalIsOutput(u) ==
  UsageCountsOf(u.input_tokens, u.output_tokens, u.output_tokens)

\* AnthropicProvider.TransformResponse: the normalized usage
TransformResponse(u) ==
  UsageCountsOf(u.input_tokens, u.output_tokens, u.input_tokens + u.output_tokens)

\* AnthropicProvider.ChatCompletion as called by LLMService.ChatCompletion
\* (lines 93-96): validation, then one vendor round trip.
ProviderChatCompletion(c, outcomes) ==
  /\ pc[c] = "call"
  /\ ~req[c].stream
  /\ LET verr == ValidateRequest(req[c]) IN
     IF verr # ""
       THEN /\ callErr' = [callErr EXCEPT ![c] = verr]
            /\ UNCHANGED <<upstreamSent, response, httpResp, vendorReq>>
       ELSE \E o \in outcomes :
              /\ vendorReq' = [vendorReq EXCEPT ![c] = Some(TransformRequest(req[c]))]
              /\ upstreamSent' = [upstreamSent EXCEPT ![c] = @ + 1]
              /\ callErr' = [callErr EXCEPT ![c] = OutcomeError(o)]
              /\ response' = [response EXCEPT ![c] =
                                IF OutcomeError(o) = "" THEN Some(TransformResponse(o.usage))
                                ELSE Nil]
              /\ httpResp' = [httpResp EXCEPT ![c] =
                                IF o.kind = "http" THEN Some([status |-> o.status, body |-> o.body])
                                ELSE Nil]
  /\ pc' = [pc EXCEPT ![c] = "update"]
  /\ UNCHANGED <<storeVars, req, reqCtx, logID, result, usageSnap, usageSource, streamVars,
                 wireVars>>

\* Mutant of SuccessAnswer: a failed update of the record is escalated.
SuccessAnswer_Escalated(dbOk) ==
  IF dbOk THEN [status |-> 200, type |-> "", message |-> "ok"]
  ELSE [status |-> 500, type |-> "api_error", message |-> "failed to update request log"]

\* LLMService.ChatCompletion, lines 108-115, and handleRegularCompletion,
\* line 122: the error of the update is printed and the response returned.
SuccessAnswer(dbOk) == [status |-> 200, type |-> "", message |-> "ok"]

\* LLMService.ChatCompletion, lines 98-115, and the handler's answer; on a
\* failed open of a stream LLMService.StreamChatCompletion, lines 145-149.
\* dbOk = FALSE is a failed update of the record.
ServiceUpdate(c, oks) ==
  /\ pc[c] = "update"
  /\ \E dbOk \in oks :
       IF callErr[c] # ""
         THEN /\ logs' = IF dbOk THEN updateRequestLogError(logs, logID[c], callErr[c])
                         ELSE logs
              /\ result' = [result EXCEPT ![c] = AnswerError(c, callErr[c])]
         ELSE /\ logs' = IF dbOk
                           THEN updateRequestLogSuccess(logs, logID[c], Get(response[c]),
                                                        CalculateCost(Get(response[c])))
                           ELSE logs
              /\ result' = [result EXCEPT ![c] = SuccessAnswer(dbOk)]
  /\ pc' = [pc EXCEPT ![c] = "done"]
  /\ UNCHANGED <<impl, location, window, inbound, limiter, allow, granted, redis, now, apiKeys, cacheAPIKey, cacheUsage, req, reqCtx, logID,
                 callErr, response, upstreamSent, usageSnap, usageSource, streamVars,
                 wireVars, httpResp, vendorReq>>


\* ------------------------------------------------------------- streaming
\* An item travelling through a channel: the bytes, and the position in the
\* vendor stream of the event it was made from (0 for a synthetic event).
Item(data, src) == [data |-> data, src |-> src]
DoneMarker == Item(<<DataLine(RawPayload("[DONE]"))>>, 0)

\* Mutant of RejectClosesBody: the body of a rejecting answer stays open.
RejectClosesBody_Never(o) == o.kind = "transport"

\* anthropic.go line 269: defer httpResp.Body.Close() before the error is
\* returned; after a transport failure there is no body left open.
RejectClosesBody(o) == TRUE

\* What the vendor does with a streaming request.
StreamOpens ==
  {o \in SyncOutcomes : o.kind = "transport" \/ o.status \in FailureStatuses}
    \cup {HttpAnswer(200, "", VendorUsage(0, 0))}

\* AnthropicProvider.StreamChatCompletion, lines 224-320, as called by
\* LLMService.StreamChatCompletion, lines 142-191: validation, the vendor
\* request, and on a 2xx answer the start of the reader goroutine and of
\* the relay goroutine; the handler then loops over the returned source.
ProviderStreamChatCompletion(c, scripts) ==
  /\ pc[c] = "call"
  /\ req[c].stream
  /\ LET verr == ValidateRequest(req[c]) IN
     IF verr # ""
       THEN /\ callErr' = [callErr EXCEPT ![c] = verr]
            /\ pc' = [pc EXCEPT ![c] = "update"]
            /\ UNCHANGED <<upstreamSent, upstream, readerPc, relayPc, bodyClosed, httpResp,
                           vendorReq>>
       ELSE /\ vendorReq' = [vendorReq EXCEPT ![c] = Some(TransformRequest(req[c]))]
            /\ upstreamSent' = [upstreamSent EXCEPT ![c] = @ + 1]
            /\ \E o \in StreamOpens :
                 /\ httpResp' = [httpResp EXCEPT ![c] =
                                   IF o.kind = "http"
                                     THEN Some([status |-> o.status, body |-> o.body])
                                     ELSE Nil]
                 /\ IF OutcomeError(o) # ""
                      THEN /\ callErr' = [callErr EXCEPT ![c] = OutcomeError(o)]
                           /\ pc' = [pc EXCEPT ![c] = "update"]
                           /\ bodyClosed' = [bodyClosed EXCEPT ![c] = RejectClosesBody(o)]
                           /\ UNCHANGED <<upstream, readerPc, relayPc>>
                      ELSE \E s \in scripts :
                           /\ upstream' = [upstream EXCEPT ![c] = s]
                           /\ readerPc' = [readerPc EXCEPT ![c] = "read"]
                           /\ relayPc' = [relayPc EXCEPT ![c] = "recv"]
                           /\ pc' = [pc EXCEPT ![c] = "stream"]
                           /\ UNCHANGED <<callErr, bodyClosed>>
  /\ UNCHANGED <<storeVars, req, reqCtx, logID, response, result, usageSnap, usageSource,
                 readPos, readerMsg, streamChan, relayData, finalUsage, wrappedChan,
                 cancelled, clientOut,
                 wireVars>>

\* Mutant of SendsErrorEvent: a failed read is treated as the end of the body.
SendsErrorEvent_Never(end) == FALSE

\* Reader goroutine, line 310: if err != io.EOF
SendsErrorEvent(end) == end # "eof"

\* Reader goroutine, lines 285-317: one Body.Read delivers the next event,
\* or the end of the body; a complete event goes through processSSEEvent.
ReaderRead(c) ==
  /\ readerPc[c] = "read"
  /\ IF readPos[c] < Len(upstream[c].events)
       THEN LET processedData == processSSEEvent(upstream[c].events[readPos[c] + 1]) IN
            /\ readPos' = [readPos EXCEPT ![c] = @ + 1]
            /\ IF IsNil(processedData)
                 THEN UNCHANGED <<readerMsg, readerPc>>
                 ELSE /\ readerMsg' = [readerMsg EXCEPT ![c] =
                                         Some(Item(Get(processedData), readPos[c] + 1))]
                      /\ readerPc' = [readerPc EXCEPT ![c] = "send"]
       ELSE /\ UNCHANGED readPos
            /\ IF SendsErrorEvent(upstream[c].end)
                 THEN /\ readerMsg' = [readerMsg EXCEPT ![c] = Some(Item(ErrorEvent, 0))]
                      /\ readerPc' = [readerPc EXCEPT ![c] = "sendErr"]
                 ELSE /\ readerPc' = [readerPc EXCEPT ![c] = "exit"]
                      /\ UNCHANGED readerMsg
  /\ UNCHANGED <<storeVars, callVars, upstream, bodyClosed, streamChan, relayPc,
                 relayData, finalUsage, wrappedChan, cancelled, clientOut,
                 wireVars, httpResp, vendorReq>>

\* Reader goroutine, lines 304 and 313: streamChan <- data blocks while the
\* channel is full.
ReaderSend(c) ==
  /\ readerPc[c] \in {"send", "sendErr"}
  /\ Len(streamChan[c].buf) < ChanCap
  /\ streamChan' = [streamChan EXCEPT ![c].buf = Append(@, Get(readerMsg[c]))]
  /\ readerMsg' = [readerMsg EXCEPT ![c] = Nil]
  /\ readerPc' = [readerPc EXCEPT ![c] = IF readerPc[c] = "send" THEN "read" ELSE "exit"]
  /\ UNCHANGED <<storeVars, callVars, upstream, readPos, bodyClosed, relayPc,
                 relayData, finalUsage, wrappedChan, cancelled, clientOut,
                 wireVars, httpResp, vendorReq>>

\* Reader goroutine, lines 279-280: the deferred Body.Close and
\* close(streamChan).
ReaderExit(c) ==
  /\ readerPc[c] = "exit"
  /\ bodyClosed' = [bodyClosed EXCEPT ![c] = TRUE]
  /\ streamChan' = [streamChan EXCEPT ![c].closed = TRUE]
  /\ readerPc' = [readerPc EXCEPT ![c] = "done"]
  /\ UNCHANGED <<storeVars, callVars, upstream, readPos, readerMsg, relayPc,
                 relayData, finalUsage, wrappedChan, cancelled, clientOut,
                 wireVars, httpResp, vendorReq>>

\* Relay goroutine, "for data := range streamChan" with the usage check:
\* a usage_update event is captured and not forwarded; the range ends when
\* the channel is closed and drained.
RelayRecv(c) ==
  /\ relayPc[c] = "recv"
  /\ \/ /\ Len(streamChan[c].buf) > 0
        /\ LET data == Head(streamChan[c].buf)
               usage == extractUsageFromSSE(data.data) IN
           /\ streamChan' = [streamChan EXCEPT ![c].buf = Tail(@)]
           /\ IF ~IsNil(usage)
                THEN /\ finalUsage' = [finalUsage EXCEPT ![c] = usage]
                     /\ UNCHANGED <<relayData, relayPc>>
                ELSE /\ relayData' = [relayData EXCEPT ![c] = Some(data)]
                     /\ relayPc' = [relayPc EXCEPT ![c] = "send"]
                     /\ UNCHANGED finalUsage
     \/ /\ Len(streamChan[c].buf) = 0
        /\ streamChan[c].closed
        /\ relayPc' = [relayPc EXCEPT ![c] = "finalize"]
        /\ UNCHANGED <<streamChan, relayData, finalUsage>>
  /\ UNCHANGED <<storeVars, callVars, upstream, readPos, bodyClosed, readerPc,
                 readerMsg, wrappedChan, cancelled, clientOut,
                 wireVars, httpResp, vendorReq>>

\* Mutant of RelayAbandons: the relay never gives up on a full channel.
RelayAbandons_Never(full) == FALSE

\* Relay goroutine of part_004, lines 169-174: select with default leaves
\* the goroutine when wrappedChan is full; llm.go line 170 has a plain send.
RelayAbandons(full) == impl = "part_004" /\ full

\* Relay goroutine: forward the event to the caller-facing channel.
RelaySend(c) ==
  /\ relayPc[c] = "send"
  /\ IF Len(wrappedChan[c].buf) < ChanCap
       THEN /\ wrappedChan' = [wrappedChan EXCEPT ![c].buf = Append(@, Get(relayData[c]))]
            /\ relayPc' = [relayPc EXCEPT ![c] = "recv"]
       ELSE /\ RelayAbandons(Len(wrappedChan[c].buf) >= ChanCap)
            /\ relayPc' = [relayPc EXCEPT ![c] = "return"]
            /\ UNCHANGED wrappedChan
  /\ relayData' = [relayData EXCEPT ![c] = Nil]
  /\ UNCHANGED <<storeVars, callVars, upstream, readPos, bodyClosed, readerPc,
                 readerMsg, streamChan, finalUsage, cancelled, clientOut,
                 wireVars, httpResp, vendorReq>>

\* Relay goroutine after the range loop: finalize the accounting record
\* with the captured usage, or as completed without usage.
RelayFinalize(c, oks) ==
  /\ relayPc[c] = "finalize"
  /\ \E dbOk \in oks :
       logs' = IF ~dbOk THEN logs
               ELSE IF ~IsNil(finalUsage[c])
                 THEN updateRequestLogStreamSuccess(logs, logID[c], Get(finalUsage[c]),
                                                    CalculateCost(Get(finalUsage[c])))
               ELSE updateRequestLogStreamComplete(logs, logID[c])
  /\ relayPc' = [relayPc EXCEPT ![c] = "close"]
  /\ UNCHANGED <<impl, location, window, inbound, limiter, allow, granted, redis, now, apiKeys, cacheAPIKey, cacheUsage, callVars,
                 upstream, readPos, bodyClosed, readerPc, readerMsg, streamChan,
                 relayData, finalUsage, wrappedChan, cancelled, clientOut,
                 wireVars, httpResp, vendorReq>>

\* Relay goroutine: the deferred close(wrappedChan), after the finalize
\* step ("close") or after the return of the default branch ("return").
RelayClose(c) ==
  /\ relayPc[c] \in {"close", "return"}
  /\ wrappedChan' = [wrappedChan EXCEPT ![c].closed = TRUE]
  /\ relayPc' = [relayPc EXCEPT ![c] = IF relayPc[c] = "close" THEN "done" ELSE "abandoned"]
  /\ UNCHANGED <<storeVars, callVars, upstream, readPos, bodyClosed, readerPc,
                 readerMsg, streamChan, relayData, finalUsage, cancelled, clientOut,
                 wireVars, httpResp, vendorReq>>


\* LLMHandler.handleStreamingCompletion, lines 151-167: the select loop.
\* A received event is written to the client (a write to a disconnected
\* client is lost).
HandlerStreamRecv(c) ==
  /\ pc[c] = "stream"
  /\ Len(wrappedChan[c].buf) > 0
  /\ wrappedChan' = [wrappedChan EXCEPT ![c].buf = Tail(@)]
  /\ clientOut' = [clientOut EXCEPT ![c] =
                     IF cancelled[c] THEN @ ELSE Append(@, Head(wrappedChan[c].buf))]
  /\ UNCHANGED <<storeVars, callVars, upstream, readPos, bodyClosed, readerPc,
                 readerMsg, streamChan, relayPc, relayData, finalUsage, cancelled,
                 wireVars, httpResp, vendorReq>>

\* Mutant of SSEventDone: the handler returns without the marker.
SSEventDone_Omitted(out) == out

\* handlers/llm.go line 156: c.SSEvent("", "[DONE]")
SSEventDone(out) == Append(out, DoneMarker)

\* The source is closed and drained: write the [DONE] marker and return.
HandlerStreamDone(c) ==
  /\ pc[c] = "stream"
  /\ Len(wrappedChan[c].buf) = 0
  /\ wrappedChan[c].closed
  /\ clientOut' = [clientOut EXCEPT ![c] = IF cancelled[c] THEN @ ELSE SSEventDone(@)]
  /\ pc' = [pc EXCEPT ![c] = "done"]
  /\ UNCHANGED <<storeVars, req, reqCtx, logID, callErr, response, result, upstreamSent,
                 usageSnap, usageSource, upstream, readPos, bodyClosed, readerPc, readerMsg,
                 streamChan, relayPc, relayData, finalUsage, wrappedChan, cancelled,
                 wireVars, httpResp, vendorReq>>

\* case <-c.Request.Context().Done(): the handler returns.
HandlerStreamCancelled(c) ==
  /\ pc[c] = "stream"
  /\ cancelled[c]
  /\ pc' = [pc EXCEPT ![c] = "done"]
  /\ UNCHANGED <<storeVars, req, reqCtx, logID, callErr, response, result, upstreamSent,
                 usageSnap, usageSource, streamVars,
                 wireVars, httpResp, vendorReq>>

\* The client of a streaming call disconnects: the request context is done.
ClientDisconnect(c) ==
  /\ pc[c] = "stream"
  /\ ~cancelled[c]
  /\ cancelled' = [cancelled EXCEPT ![c] = TRUE]
  /\ UNCHANGED <<storeVars, callVars, upstream, readPos, bodyClosed, readerPc,
                 readerMsg, streamChan, relayPc, relayData, finalUsage, wrappedChan,
                 clientOut,
                 wireVars, httpResp, vendorReq>>

\* ------------------------------------------------------------ environment
\* Time passes beyond the ExpiresAt of the keys.
Tick ==
  /\ now = 1 /\ location = 0 /\ window = Nil /\ inbound = NoInbound
  /\ InitNoLimiter
  /\ now' = 2
  /\ UNCHANGED <<impl, location, window, inbound, limiter, allow, granted, redis, apiKeys, logs, cacheAPIKey, cacheUsage, callVars, streamVars,
                 wireVars, httpResp, vendorReq>>

\* The time-to-live of a cache entry runs out, or the entry is deleted by
\* CacheService.InvalidateAPIKey / InvalidateUsageCount.
CacheExpire ==
  /\ \/ \E v \in KeyValues :
          /\ ~IsNil(cacheAPIKey[v])
          /\ cacheAPIKey' = [cacheAPIKey EXCEPT ![v] = Nil]
          /\ UNCHANGED cacheUsage
     \/ \E k \in Keys :
          /\ ~IsNil(cacheUsage[k])
          /\ cacheUsage' = [cacheUsage EXCEPT ![k] = Nil]
          /\ UNCHANGED cacheAPIKey
  /\ UNCHANGED <<impl, location, window, inbound, limiter, allow, granted, redis, now, apiKeys, logs, callVars, streamVars,
                 wireVars, httpResp, vendorReq>>



\* ------------------------------------------------ reader at byte level
\* The bytes of a body: "d:" stands for the prefix "data: ", "x" for a
\* payload byte, "\n" for a newline; ":" and "x" also begin lines that are
\* not data lines.
Bytes == {"d", ":", "x", "\n"}
Sep == <<"\n", "\n">>
DataPrefix == <<"d", ":">>

Drop(s, n) == SubSeq(s, n + 1, Len(s))
HasSuffix(s, suf) ==
  Len(s) >= Len(suf) /\ SubSeq(s, Len(s) - Len(suf) + 1, Len(s)) = suf

\* strings.Split(text, sep): the pieces between the non-overlapping
\* occurrences of sep, found from the left; always at least one piece.
RECURSIVE SplitFrom(_, _, _)
SplitFrom(text, sep, piece) ==
  IF text = <<>> THEN <<piece>>
  ELSE IF HasPrefix(text, sep) THEN <<piece>> \o SplitFrom(Drop(text, Len(sep)), sep, <<>>)
  ELSE SplitFrom(Tail(text), sep, Append(piece, Head(text)))

\* AnthropicProvider.parseSSEEvents
parseSSEEvents(text) == SplitFrom(text, Sep, <<>>)

\* strings.TrimSpace, the newline being the only white space of Bytes
RECURSIVE TrimLeft(_)
TrimLeft(s) == IF s # <<>> /\ Head(s) = "\n" THEN TrimLeft(Tail(s)) ELSE s
RECURSIVE TrimRight(_)
TrimRight(s) ==
  IF s # <<>> /\ s[Len(s)] = "\n" THEN TrimRight(SubSeq(s, 1, Len(s) - 1)) ELSE s
TrimSpace(s) == TrimRight(TrimLeft(s))

\* AnthropicProvider.processSSEEvent on bytes: the first line with the data
\* prefix and a payload is re-emitted as "data: <payload>\n\n"; nil when
\* the event has no such line.  (Payloads are opaque here.)
RECURSIVE processSSELines(_, _)
processSSELines(lines, i) ==
  IF i > Len(lines) THEN Nil
  ELSE IF HasPrefix(lines[i], DataPrefix) /\ Drop(lines[i], Len(DataPrefix)) # <<>>
    THEN Some(DataPrefix \o Drop(lines[i], Len(DataPrefix)) \o Sep)
  ELSE processSSELines(lines, i + 1)

processSSEEventText(eventText) ==
  processSSELines(SplitFrom(TrimSpace(eventText), <<"\n">>, <<>>), 1)

\* Mutant of KeepRemainder: the partial event is not kept for the next read.
KeepRemainder_Dropped(event) == <<>>

\* Reader goroutine, line 298: remainder = event
KeepRemainder(event) == event

\* Reader goroutine, lines 288-306: one iteration of the read loop with
\* n > 0 bytes read; [out, remainder] are the events sent on streamChan and
\* the new remainder.
RECURSIVE ProcessEvents(_, _, _, _)
ProcessEvents(events, i, complete, out) ==
  IF i > Len(events) THEN [out |-> out, remainder |-> <<>>]
  ELSE IF i = Len(events) /\ ~complete
    THEN [out |-> out, remainder |-> KeepRemainder(events[i])]
  ELSE LET processedData == processSSEEventText(events[i]) IN
       ProcessEvents(events, i + 1, complete,
                     IF IsNil(processedData) THEN out ELSE Append(out, Get(processedData)))

ReadStep(rem, chunk) ==
  LET text == rem \o chunk IN
  ProcessEvents(parseSSEEvents(text), 1, HasSuffix(text, Sep), <<>>)

\* httpResp.Body.Read returns the next n > 0 bytes of the body.
BodyRead(n) ==
  /\ n \in 1..(Len(wire) - wirePos)
  /\ LET r == ReadStep(remainder, SubSeq(wire, wirePos + 1, wirePos + n)) IN
     /\ emitted' = emitted \o r.out
     /\ remainder' = r.remainder
  /\ wirePos' = wirePos + n
  /\ UNCHANGED <<storeVars, callVars, streamVars, wire, httpResp, vendorReq>>

\* --------------------------------------------------------- specifications
SeqsUpTo(S, n) == UNION {[1..k -> S] : k \in 0..n}

\* Vendor streams of the gateway specification.
GatewayScripts ==
  {[events |-> <<>>, end |-> "eof"],
   [events |-> <<EvDeltaBare, EvStopUsageBare(1, MaxTokens)>>, end |-> "eof"],
   [events |-> [i \in 1..(ChanCap + 1) |-> EvDeltaBare], end |-> "err"]}

\* Vendor streams of the streaming specification: every kind of event alone
\* or followed by the terminal usage event, and streams of up to MaxEvents
\* content and usage events; each ends with EOF or with a read error.
EventKinds ==
  {EvDelta, EvDeltaBare, EvStopUsage(1, MaxTokens), EvStopUsageBare(1, MaxTokens),
   EvStopUsage(MaxTokens, 1),
   EvStopPlain, EvPing, EvComment, EvDone, EvEmptyData, EvText, EvVendorUsageUpdate,
   EvTwoData}

StreamScripts ==
  {[events |-> es, end |-> e] :
     es \in SeqsUpTo(EventKinds, 1)
            \cup {<<k, EvStopUsageBare(1, MaxTokens)>> : k \in EventKinds}
            \cup SeqsUpTo({EvDeltaBare, EvStopUsageBare(1, MaxTokens)}, MaxEvents),
     e \in {"eof", "err"}}

StreamSteps(c, oks) ==
  \/ ReaderRead(c) \/ ReaderSend(c) \/ ReaderExit(c)
  \/ RelayRecv(c) \/ RelaySend(c) \/ RelayFinalize(c, oks) \/ RelayClose(c)
  \/ HandlerStreamRecv(c) \/ HandlerStreamDone(c) \/ HandlerStreamCancelled(c)
  \/ ClientDisconnect(c)

\* Spec: one call with every input, every store configuration and every
\* failure of a store or cache operation.
Next ==
  \/ Arrive(1, KeyValues) \/ HandlerValidate(1, BOOLEAN) \/ HandlerBind(1, Bodies)
  \/ ServiceResolve(1) \/ ServiceCreateLog(1, BOOLEAN)
  \/ ProviderChatCompletion(1, SyncOutcomes)
  \/ ProviderStreamChatCompletion(1, GatewayScripts)
  \/ ServiceUpdate(1, BOOLEAN) \/ StreamSteps(1, BOOLEAN)
  \/ Tick

Spec == Init /\ [][Next]_vars

\* ConcSpec: NumCalls concurrent synchronous calls for one active key;
\* store and cache operations succeed and the vendor answers.
InitConc ==
  /\ impl \in {"part_004", "llm.go"}
  /\ redis \in BOOLEAN
  /\ now = 1 /\ location = 0 /\ window = Nil /\ inbound = NoInbound
  /\ InitNoLimiter
  /\ \E d \in 0..MaxLimit :
       apiKeys = [k \in Keys |->
                    [ID |-> k, Status |-> "active", ExpiresAt |-> Nil,
                     DailyRequestLimit |-> d, MonthlyRequestLimit |-> 0,
                     ProviderType |-> "anthropic"]]
  /\ \E n \in 0..MaxPrior : logs = [i \in 1..n |-> PriorLog("k1", "today")]
  /\ InitCacheCold /\ InitCalls /\ InitStreams /\ InitWire

ConcBodies == {[model |-> "m1", messages |-> GoodMessages, stream |-> FALSE]}
ConcOutcomes == {HttpAnswer(200, OkBody, VendorUsage(1, MaxTokens))}

NextConc ==
  \/ \E c \in Calls :
       \/ Arrive(c, Keys) \/ HandlerValidate(c, {TRUE})
       \/ HandlerBind(c, ConcBodies)
       \/ ServiceResolve(c) \/ ServiceCreateLog(c, {TRUE})
       \/ ProviderChatCompletion(c, ConcOutcomes)
       \/ ServiceUpdate(c, {TRUE})
  \/ CacheExpire

ConcSpec == InitConc /\ [][NextConc]_vars

\* StreamSpec: one streaming call of an active key without ceilings, with
\* every vendor stream of StreamScripts.
InitStream ==
  /\ impl \in {"part_004", "llm.go"}
  /\ redis = FALSE
  /\ now = 1 /\ location = 0 /\ window = Nil /\ inbound = NoInbound
  /\ InitNoLimiter
  /\ apiKeys = [k \in Keys |->
                  [ID |-> k, Status |-> "active", ExpiresAt |-> Nil,
                   DailyRequestLimit |-> 0, MonthlyRequestLimit |-> 0,
                     ProviderType |-> "anthropic"]]
  /\ logs = <<>>
  /\ InitCacheCold /\ InitCalls /\ InitStreams /\ InitWire

StreamBodies == {[model |-> "m1", messages |-> GoodMessages, stream |-> TRUE]}

NextStream ==
  \/ Arrive(1, Keys) \/ HandlerValidate(1, BOOLEAN) \/ HandlerBind(1, StreamBodies)
  \/ ServiceResolve(1) \/ ServiceCreateLog(1, BOOLEAN)
  \/ ProviderStreamChatCompletion(1, StreamScripts)
  \/ ServiceUpdate(1, BOOLEAN) \/ StreamSteps(1, BOOLEAN)

StreamSpec == InitStream /\ [][NextStream]_vars


\* SoundSpec: one call with every body, every answer and every stream of the vendor,
\* while every operation of the durable store succeeds.
NextSound ==
  \/ Arrive(1, Keys) \/ HandlerValidate(1, {TRUE}) \/ HandlerBind(1, Bodies)
  \/ ServiceResolve(1) \/ ServiceCreateLog(1, {TRUE})
  \/ ProviderChatCompletion(1, SyncOutcomes)
  \/ ProviderStreamChatCompletion(1, StreamScripts)
  \/ ServiceUpdate(1, {TRUE}) \/ StreamSteps(1, {TRUE})

SoundSpec == InitStream /\ [][NextSound]_vars

\* AuthSpec: the lookup of one call from every state of the store and of
\* the cache, with every store and cache fault, while time passes and cache
\* entries run out.
NextAuth ==
  \/ Arrive(1, KeyValues) \/ HandlerValidate(1, BOOLEAN)
  \/ Tick
  \/ CacheExpire

AuthSpec == Init /\ [][NextAuth]_vars

\* Calls validated while authorization records are edited and cache entries
\* expire; the validation of a call runs in one piece or in two, around the
\* durable-store lookup.
NextStale ==
  \/ \E c \in Calls :
        \/ Arrive(c, Keys)
        \/ HandlerValidate(c, BOOLEAN)
        \/ HandlerValidateLookup(c)
        \/ HandlerValidateFinish(c, BOOLEAN)
  \/ \E k \in Keys : APIKeyUpdate(k)
  \/ CacheExpire
  \/ Tick

StaleSpec == Init /\ [][NextStale]_vars

\* ValidateSpec: the adapter is called, synchronously or for a stream, with
\* every request of up to MaxMessages messages.
Roles == {"user", "assistant", "system"}
Contents == {"", "hi"}
AdapterRequests ==
  {[apiKey |-> "k1", bindOk |-> TRUE, model |-> m, messages |-> msgs, stream |-> st,
    opts |-> NoOpts] :
     m \in {"", "m1"},
     msgs \in SeqsUpTo([Role : Roles, Content : Contents], MaxMessages),
     st \in BOOLEAN}
  \cup {[apiKey |-> "k1", bindOk |-> TRUE, model |-> "m1", messages |-> GoodMessages,
         stream |-> st, opts |-> o] : st \in BOOLEAN, o \in RequestOpts}

InitValidate ==
  /\ impl \in {"part_004", "llm.go"}
  /\ redis = FALSE
  /\ now = 1 /\ location = 0 /\ window = Nil /\ inbound = NoInbound
  /\ InitNoLimiter
  /\ apiKeys = [k \in Keys |->
                  [ID |-> k, Status |-> "active", ExpiresAt |-> Nil,
                   DailyRequestLimit |-> 0, MonthlyRequestLimit |-> 0,
                     ProviderType |-> "anthropic"]]
  /\ logs = <<NewRequestLog("k1", 1)>>
  /\ InitCacheCold /\ InitStreams /\ InitWire
  /\ pc = [c \in Calls |-> IF c = 1 THEN "call" ELSE "idle"]
  /\ \E r \in AdapterRequests : req = [c \in Calls |-> IF c = 1 THEN r ELSE NoRequest]
  /\ reqCtx = [c \in Calls |-> IF c = 1 THEN Some(apiKeys["k1"]) ELSE Nil]
  /\ logID = [c \in Calls |-> IF c = 1 THEN 1 ELSE 0]
  /\ callErr = [c \in Calls |-> ""]
  /\ response = [c \in Calls |-> Nil]
  /\ httpResp = [c \in Calls |-> Nil]
  /\ vendorReq = [c \in Calls |-> Nil]
  /\ result = [c \in Calls |-> NoResult]
  /\ upstreamSent = [c \in Calls |-> 0]
  /\ usageSnap = [c \in Calls |-> Nil]
  /\ usageSource = [c \in Calls |-> "none"]

NextValidate ==
  \/ ProviderChatCompletion(1, ConcOutcomes)
  \/ ProviderStreamChatCompletion(1, GatewayScripts)

ValidateSpec == InitValidate /\ [][NextValidate]_vars

\* ResolveSpec: one call of an active key of a vendor with or without a
\* registered adapter, for a model that is active, retired, of another
\* vendor or unknown; the store works.
ResolveBodies ==
  {[model |-> m, messages |-> GoodMessages, stream |-> st] :
     m \in {"m1", "m2", "m3", "mx"}, st \in BOOLEAN}

InitResolve ==
  /\ impl \in {"part_004", "llm.go"}
  /\ redis = FALSE
  /\ now = 1 /\ location = 0 /\ window = Nil /\ inbound = NoInbound
  /\ InitNoLimiter
  /\ \E t \in ProviderTypes :
       apiKeys = [k \in Keys |->
                    [ID |-> k, Status |-> "active", ExpiresAt |-> Nil,
                     DailyRequestLimit |-> 0, MonthlyRequestLimit |-> 0,
                     ProviderType |-> t]]
  /\ logs = <<>>
  /\ InitCacheCold /\ InitCalls /\ InitStreams /\ InitWire

NextResolve ==
  \/ Arrive(1, Keys) \/ HandlerValidate(1, {TRUE}) \/ HandlerBind(1, ResolveBodies)
  \/ ServiceResolve(1) \/ ServiceCreateLog(1, {TRUE})
  \/ ProviderChatCompletion(1, ConcOutcomes)
  \/ ProviderStreamChatCompletion(1, GatewayScripts)
  \/ ServiceUpdate(1, {TRUE}) \/ StreamSteps(1, {TRUE})

ResolveSpec == InitResolve /\ [][NextResolve]_vars

\* CostSpec: every call is an accepted synchronous request whose record
\* exists; the vendor answers with any usage of at most MaxTokens tokens a
\* side, and the service records the usage and its cost.
CostOutcomes ==
  {HttpAnswer(200, OkBody, VendorUsage(i, o)) : i \in 0..MaxTokens, o \in 0..MaxTokens}

InitCost ==
  /\ impl \in {"part_004", "llm.go"}
  /\ redis = FALSE
  /\ now = 1 /\ location = 0 /\ window = Nil /\ inbound = NoInbound
  /\ InitNoLimiter
  /\ apiKeys = [k \in Keys |->
                  [ID |-> k, Status |-> "active", ExpiresAt |-> Nil,
                   DailyRequestLimit |-> 0, MonthlyRequestLimit |-> 0,
                     ProviderType |-> "anthropic"]]
  /\ logs = [c \in Calls |-> NewRequestLog("k1", c)]
  /\ InitCacheCold /\ InitStreams /\ InitWire
  /\ pc = [c \in Calls |-> "call"]
  /\ req = [c \in Calls |->
              [apiKey |-> "k1", bindOk |-> TRUE, model |-> "m1",
               messages |-> GoodMessages, stream |-> FALSE, opts |-> NoOpts]]
  /\ reqCtx = [c \in Calls |-> Some(apiKeys["k1"])]
  /\ logID = [c \in Calls |-> c]
  /\ callErr = [c \in Calls |-> ""]
  /\ response = [c \in Calls |-> Nil]
  /\ httpResp = [c \in Calls |-> Nil]
  /\ vendorReq = [c \in Calls |-> Nil]
  /\ result = [c \in Calls |-> NoResult]
  /\ upstreamSent = [c \in Calls |-> 0]
  /\ usageSnap = [c \in Calls |-> Nil]
  /\ usageSource = [c \in Calls |-> "none"]

NextCost ==
  \E c \in Calls :
     \/ ProviderChatCompletion(c, CostOutcomes)
     \/ ServiceUpdate(c, {TRUE})

CostSpec == InitCost /\ [][NextCost]_vars

\* CountSpec: the lookup of one call of an active key with a daily ceiling,
\* whose earlier records are of any status and of any age.
EarlierLogs ==
  {[PriorLog("k1", w) EXCEPT !.status = st] :
     w \in {"today", "month", "earlier"}, st \in {"completed", "pending", "failed"}}

InitCount ==
  /\ impl \in {"part_004", "llm.go"}
  /\ redis \in BOOLEAN
  /\ now = 1 /\ location = 0 /\ window = Nil /\ inbound = NoInbound
  /\ InitNoLimiter
  /\ \E d \in 1..MaxLimit, m \in {0, MaxLimit} :
       apiKeys = [k \in Keys |->
                    [ID |-> k, Status |-> "active", ExpiresAt |-> Nil,
                     DailyRequestLimit |-> d, MonthlyRequestLimit |-> m,
                     ProviderType |-> "anthropic"]]
  /\ logs \in SeqsUpTo(EarlierLogs, MaxPrior)
  /\ InitCacheCold /\ InitCalls /\ InitStreams /\ InitWire

NextCount == Arrive(1, Keys) \/ HandlerValidate(1, {TRUE})

CountSpec == InitCount /\ [][NextCount]_vars

\* ReadSpec: the reader's loop over every body of at most MaxBytes bytes,
\* split over reads in every way.
InitRead ==
  /\ impl = "part_004" /\ redis = FALSE /\ now = 1 /\ location = 0 /\ window = Nil /\ inbound = NoInbound
  /\ InitNoLimiter
  /\ apiKeys = [k \in Keys |->
                  [ID |-> k, Status |-> "active", ExpiresAt |-> Nil,
                   DailyRequestLimit |-> 0, MonthlyRequestLimit |-> 0,
                     ProviderType |-> "anthropic"]]
  /\ logs = <<>>
  /\ InitCacheCold /\ InitCalls /\ InitStreams
  /\ wire \in SeqsUpTo(Bytes, MaxBytes)
  /\ wirePos = 0 /\ remainder = <<>> /\ emitted = <<>>

NextRead == \E n \in 1..MaxBytes : BodyRead(n)

ReadSpec == InitRead /\ [][NextRead]_vars

\* --------------------------------------------------------- rate limiter
\* Source addresses, and durations in ticks of half a second.
IPs == {"10.0.0.1", "10.0.0.2"}
SecondTicks == 2
MinuteTicks == 60 * SecondTicks

\* Mutant of MutexFree: Lock never waits.
MutexFree_NoLock(mu) == TRUE

\* rl.mu.Lock() returns when no caller holds the mutex.
MutexFree(mu) == mu = 0

NewVisitor(t) == [count |-> 1, lastSeen |-> t, windowStart |-> t]

\* RateLimiter.Allow, lines 33-36: lock and read the clock.
AllowLock(c) ==
  /\ allow[c].pc = "idle"
  /\ MutexFree(limiter.mu)
  /\ \E ip \in IPs :
       allow' = [allow EXCEPT ![c] = [pc |-> "locked", ip |-> ip, now |-> now,
                                      visitor |-> Nil, ok |-> FALSE]]
  /\ limiter' = [limiter EXCEPT !.mu = c]
  /\ UNCHANGED <<impl, redis, now, location, window, inbound, granted, apiKeys, logs,
                 cacheAPIKey, cacheUsage, callVars, streamVars, wireVars, httpResp,
                 vendorReq>>

\* RateLimiter.Allow, line 38: visitor, exists := rl.visitors[ip]
AllowLookup(c) ==
  /\ allow[c].pc = "locked"
  /\ allow' = [allow EXCEPT ![c].pc = "found",
                            ![c].visitor = limiter.visitors[allow[c].ip]]
  /\ UNCHANGED <<impl, redis, now, location, window, inbound, limiter, granted, apiKeys,
                 logs, cacheAPIKey, cacheUsage, callVars, streamVars, wireVars, httpResp,
                 vendorReq>>

\* RateLimiter.Allow, lines 39-75, with the deferred Unlock: a new visitor
\* for an unknown address or one not seen for a minute, a new window when
\* the window has passed, a refusal when count has reached rate, else
\* count + 1.  r.fresh: the window of the address begins with this call.
\* AllowDecide returns r.ok to the caller, whose locals are gone then.
AllowOutcome(visitor, t, rate) ==
  IF IsNil(visitor)
    THEN [visitor |-> NewVisitor(t), ok |-> TRUE, fresh |-> TRUE]
  ELSE IF t - Get(visitor).lastSeen > MinuteTicks
    THEN [visitor |-> NewVisitor(t), ok |-> TRUE, fresh |-> TRUE]
  ELSE IF t - Get(visitor).windowStart >= SecondTicks
    THEN [visitor |-> NewVisitor(t), ok |-> TRUE, fresh |-> TRUE]
  ELSE IF Get(visitor).count >= rate
    THEN [visitor |-> [Get(visitor) EXCEPT !.lastSeen = t], ok |-> FALSE, fresh |-> FALSE]
  ELSE [visitor |-> [Get(visitor) EXCEPT !.count = @ + 1, !.lastSeen = t],
        ok |-> TRUE, fresh |-> FALSE]

AllowDecide(c) ==
  /\ allow[c].pc = "found"
  /\ LET ip == allow[c].ip
         r == AllowOutcome(allow[c].visitor, allow[c].now, limiter.rate) IN
       /\ limiter' = [limiter EXCEPT !.visitors[ip] = Some(r.visitor),
                                     !.mu = IF @ = c THEN 0 ELSE @]
       /\ allow' = [allow EXCEPT ![c] = [pc |-> "idle", ip |-> "", now |-> 0,
                                         visitor |-> Nil, ok |-> FALSE]]
       /\ granted' = [granted EXCEPT
                         !.count[ip] = IF r.fresh THEN 1 ELSE IF r.ok THEN @ + 1 ELSE @,
                         !.refused[ip] = IF r.fresh THEN FALSE ELSE @ \/ ~r.ok]
  /\ UNCHANGED <<impl, redis, now, location, window, inbound, apiKeys, logs,
                 cacheAPIKey, cacheUsage, callVars, streamVars, wireVars, httpResp,
                 vendorReq>>

\* RateLimiter.StartCleanup, one tick of its ticker: under the mutex, the
\* visitors not seen for five minutes are deleted.
Cleanup ==
  /\ MutexFree(limiter.mu)
  /\ \E ip \in IPs : /\ ~IsNil(limiter.visitors[ip])
                      /\ now - Get(limiter.visitors[ip]).lastSeen > 5 * MinuteTicks
  /\ limiter' = [limiter EXCEPT !.visitors =
                    [ip \in IPs |->
                       IF ~IsNil(@[ip]) /\ now - Get(@[ip]).lastSeen > 5 * MinuteTicks
                         THEN Nil ELSE @[ip]]]
  /\ UNCHANGED <<impl, redis, now, location, window, inbound, allow, granted, apiKeys,
                 logs, cacheAPIKey, cacheUsage, callVars, streamVars, wireVars, httpResp,
                 vendorReq>>

\* Time passes: half a second, or just over one or five minutes.
AdvanceClock ==
  /\ granted.jumps < MaxJumps
  /\ \E d \in {1, MinuteTicks + 1, 5 * MinuteTicks + 1} : now' = now + d
  /\ granted' = [granted EXCEPT !.jumps = @ + 1]
  /\ UNCHANGED <<impl, redis, location, window, inbound, limiter, allow, apiKeys, logs,
                 cacheAPIKey, cacheUsage, callVars, streamVars, wireVars, httpResp,
                 vendorReq>>

\* RateSpec: NumCalls concurrent callers of one RateLimiter built by
\* NewRateLimiter(rate), rate in 1..MaxRate, from IPs.
InitRate ==
  /\ impl = "part_004"
  /\ redis = FALSE
  /\ now = 1 /\ location = 0 /\ window = Nil /\ inbound = NoInbound
  /\ \E rate \in 1..MaxRate :
       limiter = [rate |-> rate, visitors |-> [ip \in IPs |-> Nil], mu |-> 0]
  /\ allow = [c \in Calls |-> [pc |-> "idle", ip |-> "", now |-> 0, visitor |-> Nil,
                                 ok |-> FALSE]]
  /\ granted = [count |-> [ip \in IPs |-> 0], refused |-> [ip \in IPs |-> FALSE],
                jumps |-> 0]
  /\ apiKeys = [k \in Keys |->
                  [ID |-> k, Status |-> "active", ExpiresAt |-> Nil,
                   DailyRequestLimit |-> 0, MonthlyRequestLimit |-> 0,
                   ProviderType |-> "anthropic"]]
  /\ logs = <<>>
  /\ InitCacheCold /\ InitCalls /\ InitStreams /\ InitWire

NextRate ==
  \/ \E c \in Calls : AllowLock(c) \/ AllowLookup(c) \/ AllowDecide(c)
  \/ Cleanup
  \/ AdvanceClock

RateSpec == InitRate /\ [][NextRate]_vars

\* ExtractSpec: one call with every combination of an Authorization header,
\* an x-api-key header and an api_key query parameter, up to its validation.
\* The header values are those of the request line by line, before the
\* server drops the whitespace around them: among them a bearer header
\* without a token and an x-api-key header of one space.
Tokens == {KeyChars[v] : v \in KeyValues}
AuthorizationValues ==
  {<<>>, <<"B", "e", "a", "r", "e", "r">>}
  \cup {BearerPrefix \o t : t \in Tokens \cup {<<>>}}
  \cup {<<"B", "a", "s", "i", "c", " ">> \o t : t \in Tokens}
  \cup {<<"b", "e", "a", "r", "e", "r", " ">> \o t : t \in Tokens}

InitExtract ==
  /\ impl \in {"part_004", "llm.go"}
  /\ redis = FALSE
  /\ now = 1 /\ location = 0 /\ window = Nil
  /\ InitNoLimiter
  /\ inbound \in [Authorization : AuthorizationValues,
                   XApiKey : Tokens \cup {<<>>, <<" ">>},
                   api_key : Tokens \cup {<<>>}]
  /\ apiKeys = [k \in Keys |->
                  [ID |-> k, Status |-> "active", ExpiresAt |-> Nil,
                   DailyRequestLimit |-> 0, MonthlyRequestLimit |-> 0,
                   ProviderType |-> "anthropic"]]
  /\ logs = <<>>
  /\ InitCacheCold /\ InitCalls /\ InitStreams /\ InitWire

NextExtract == HandlerExtract(1) \/ HandlerValidate(1, {TRUE})

ExtractSpec == InitExtract /\ [][NextExtract]_vars

\* WindowSpec: the daily window of getBatchUsageFromDB for every hour of
\* MaxDays days on servers in every whole-hour time zone.
ZoneOffsets == -12 .. 14
Instants == DayHours .. (DayHours * (MaxDays + 1) - 1)

InitWindow ==
  /\ impl \in {"part_004", "llm.go"}
  /\ redis = FALSE
  /\ now \in Instants /\ location \in ZoneOffsets /\ window = Nil /\ inbound = NoInbound
  /\ InitNoLimiter
  /\ apiKeys = [k \in Keys |->
                  [ID |-> k, Status |-> "active", ExpiresAt |-> Nil,
                   DailyRequestLimit |-> 1, MonthlyRequestLimit |-> 0,
                   ProviderType |-> "anthropic"]]
  /\ logs = <<>>
  /\ InitCacheCold /\ InitCalls /\ InitStreams /\ InitWire

\* getBatchUsageFromDB computes the bounds of its daily query.
CountUsageWindow ==
  /\ window = Nil
  /\ window' = Some(DailyWindow(now, location))
  /\ UNCHANGED <<impl, redis, now, location, inbound, limiter, allow, granted, apiKeys,
                 logs, cacheAPIKey, cacheUsage, callVars, streamVars, wireVars, httpResp, vendorReq>>

NextWindow == CountUsageWindow

WindowSpec == InitWindow /\ [][NextWindow]_vars


\* ------------------------------------------------------------------ claims
LimitErrors == {"daily request limit exceeded", "monthly request limit exceeded"}
RecordOf(c) == logs[logID[c]]
KeyRows(keyID) == {i \in DOMAIN logs : logs[i].api_key_id = keyID}

\* C1: an accounting record is created with status pending, afterwards its
\* status changes only from pending to completed or failed, a completed or
\* failed record never changes status again, and no record is deleted.
C1_RecordLifecycle ==
  [][/\ Len(logs') >= Len(logs)
     /\ \A i \in 1..Len(logs) :
          \/ logs'[i].status = logs[i].status
          \/ logs[i].status = "pending" /\ logs'[i].status \in {"completed", "failed"}
     /\ \A i \in (Len(logs) + 1)..Len(logs') : logs'[i].status = "pending"]_vars

\* C1 witness: the record of a streaming call was finalized by the relay.
C1_Witness ==
  \E c \in Calls : /\ logID[c] # 0 /\ req[c].stream /\ relayPc[c] = "done"
                   /\ RecordOf(c).status = "completed"

\* The relay of call c waits for ever: its send on the caller-facing channel
\* cannot proceed and the handler, the only receiver, has returned.
RelayStuck(c) ==
  relayPc[c] = "send" /\ pc[c] = "done" /\ ~ENABLED RelaySend(c)

RelayOver(c) == relayPc[c] \in {"done", "abandoned"} \/ RelayStuck(c)

\* C2 (as claimed): whenever the relay of a streaming call is over, the
\* finalize step has run for the call's record, also when the client
\* stopped reading or disconnected.
C2_FinalizeAlwaysRuns ==
  \A c \in Calls : (logID[c] # 0 /\ req[c].stream /\ RelayOver(c)) => relayPc[c] = "done"

\* C3 (as claimed): the relay never stays blocked on the send to the
\* caller-facing channel once the consumer is gone.
C3_RelayNeverBlocked == \A c \in Calls : ~RelayStuck(c)

\* The reader of call c waits for ever: its send on streamChan cannot
\* proceed and the relay, the only receiver, has terminated or waits for ever.
ReaderStuck(c) ==
  /\ readerPc[c] \in {"send", "sendErr"}
  /\ ~ENABLED ReaderSend(c)
  /\ RelayOver(c)

\* C4 (as claimed): after the client of a streaming call has disconnected
\* and the handler has returned, the reader is never blocked for ever on
\* its send (it can still reach its exit, where the body is closed).
C4_ReaderNotLeaked ==
  \A c \in Calls : (cancelled[c] /\ pc[c] = "done") => ~ReaderStuck(c)

\* C5: a call whose key is unknown, non-active or expired, or whose quota
\* check meets a ceiling, ends at validation with an authentication error,
\* and such a call never has an accounting record or an upstream request.
C5_AuthFailsFirst ==
  /\ [](\A c \in Calls :
          result[c].type = "authentication_error" =>
            /\ pc[c] = "done" /\ logID[c] = 0 /\ upstreamSent[c] = 0
            /\ \A i \in DOMAIN logs : logs[i].request # c)
  /\ [][\A c \in Calls :
          (/\ pc[c] = "validate" /\ pc'[c] # "validate"
           /\ \/ req[c].apiKey \notin Keys
              \/ apiKeys[req[c].apiKey].Status # "active"
              \/ Expired(apiKeys[req[c].apiKey].ExpiresAt, now)
              \/ /\ ~IsNil(usageSnap'[c])
                 /\ LET k == apiKeys[req[c].apiKey]
                        u == Get(usageSnap'[c]) IN
                    \/ k.DailyRequestLimit > 0 /\ u.DailyCount >= k.DailyRequestLimit
                    \/ k.MonthlyRequestLimit > 0 /\ u.MonthlyCount >= k.MonthlyRequestLimit)
          => /\ pc'[c] = "done"
             /\ result'[c].type = "authentication_error"
             /\ logs' = logs /\ upstreamSent' = upstreamSent]_vars

\* C5 witness: a call was rejected for a met ceiling, without record or
\* upstream request.
C5_Witness ==
  \E c \in Calls : /\ pc[c] = "done" /\ result[c].message \in LimitErrors
                   /\ logID[c] = 0 /\ upstreamSent[c] = 0

\* C6: a validation that counts in the durable store a number of today's
\* records of the key that is at least its positive daily ceiling rejects
\* the call with the daily-limit error, creates no record, and the call
\* never has a record.
C6_DailyCeilingRejects ==
  /\ [](\A c \in Calls : result[c].message = "daily request limit exceeded" =>
                           pc[c] = "done" /\ logID[c] = 0)
  /\ [][\A c \in Calls :
          (/\ pc[c] = "validate" /\ pc'[c] # "validate"
           /\ usageSource'[c] = "db"
           /\ req[c].apiKey \in Keys
           /\ LET k == apiKeys[req[c].apiKey] IN
              /\ k.DailyRequestLimit > 0
              /\ Cardinality({i \in KeyRows(k.ID) : logs[i].created = "today"})
                   >= k.DailyRequestLimit)
          => /\ result'[c].message = "daily request limit exceeded"
             /\ pc'[c] = "done" /\ logs' = logs /\ logID'[c] = 0]_vars

\* C6 witness: with as many records as the ceiling, counted in the store,
\* the next call was rejected.
C6_Witness ==
  \E c \in Calls :
     /\ result[c].message = "daily request limit exceeded"
     /\ usageSource[c] = "db"
     /\ Get(usageSnap[c]).DailyCount = apiKeys["k1"].DailyRequestLimit
     /\ Cardinality(KeyRows("k1")) = apiKeys["k1"].DailyRequestLimit

\* C7: validating a call of a valid key whose ceilings are both zero admits
\* the call, reads or computes no usage snapshot and leaves the usage cache
\* alone, whatever the number of records of the key.
C7_NoCeilingNeverRejects ==
  [][\A c \in Calls :
       (/\ pc[c] = "validate" /\ pc'[c] # "validate"
        /\ KeyFound(req[c].apiKey)
        /\ ~Expired(apiKeys[req[c].apiKey].ExpiresAt, now)
        /\ apiKeys[req[c].apiKey].DailyRequestLimit = 0
        /\ apiKeys[req[c].apiKey].MonthlyRequestLimit = 0)
       => /\ pc'[c] = "bind" /\ ~IsNil(reqCtx'[c])
          /\ usageSource'[c] = "none" /\ IsNil(usageSnap'[c])
          /\ cacheUsage' = cacheUsage]_vars

\* C7 witness: a key without ceilings was admitted with MaxPrior records.
C7_Witness ==
  \E c \in Calls :
     /\ ~IsNil(reqCtx[c]) /\ Get(reqCtx[c]).DailyRequestLimit = 0
     /\ Get(reqCtx[c]).MonthlyRequestLimit = 0
     /\ Cardinality(KeyRows(Get(reqCtx[c]).ID)) >= MaxPrior

\* C8: every admitted call of a key with a daily ceiling was admitted on a
\* snapshot below the ceiling (nothing else is checked, and nothing is
\* reserved between the check and the creation of the record) ...
C8_AdmittedOnSnapshot ==
  \A c \in Calls :
     (~IsNil(reqCtx[c]) /\ Get(reqCtx[c]).DailyRequestLimit > 0) =>
        /\ ~IsNil(usageSnap[c])
        /\ Get(usageSnap[c]).DailyCount < Get(reqCtx[c]).DailyRequestLimit

\* ... C8 witness: two calls both read the count from the store before
\* either created its record, both were admitted, and the key now has
\* more records than its ceiling.
C8_Witness ==
  \E c1, c2 \in Calls :
     /\ c1 # c2 /\ logID[c1] # 0 /\ logID[c2] # 0
     /\ usageSource[c1] = "db" /\ usageSource[c2] = "db"
     /\ usageSnap[c1] = usageSnap[c2]
     /\ Cardinality(KeyRows("k1")) > apiKeys["k1"].DailyRequestLimit

\* message_stop carrying message.usage: the vendor's terminal usage event.
IsTerminalUsage(ev) ==
  \E i \in 1..Len(ev) : /\ ev[i].prefix = "data: " /\ ev[i].body.json
                        /\ ev[i].body.type = "message_stop" /\ ~IsNil(ev[i].body.message)

Delivered(c) == {clientOut[c][i].src : i \in 1..Len(clientOut[c])} \ {0}

\* C9 (as claimed): when a streaming call whose client stayed connected and
\* whose relay did not abandon delivery has ended, every event of the vendor
\* stream except the terminal usage events was delivered, and no delivered
\* event is typed usage_update.
C9_OnlyUsageWithheld ==
  \A c \in Calls :
     (pc[c] = "done" /\ relayPc[c] = "done" /\ ~cancelled[c] /\ logID[c] # 0 /\ req[c].stream) =>
        /\ Delivered(c) = {i \in 1..Len(upstream[c].events) :
                             ~IsTerminalUsage(upstream[c].events[i])}
        /\ \A i \in 1..Len(clientOut[c]) :
             \A j \in 1..Len(clientOut[c][i].data) :
                clientOut[c][i].data[j].body.type # "usage_update"

\* C10 (as claimed): every event delivered to the client that was made from
\* a vendor event is that vendor event, line for line.
C10_ForwardedUnmodified ==
  \A c \in Calls :
     \A i \in 1..Len(clientOut[c]) :
        clientOut[c][i].src # 0 =>
          clientOut[c][i].data = upstream[c].events[clientOut[c][i].src]


\* What the reader sends when the bytes arrive in one contiguous read.
OneRead(bytes) == IF bytes = <<>> THEN <<>> ELSE ReadStep(<<>>, bytes).out

StreamEnded(c) == pc[c] = "done" /\ relayPc[c] # "none" /\ ~cancelled[c]

ErrorEventsAt(c) == {i \in 1..Len(clientOut[c]) : clientOut[c][i] = Item(ErrorEvent, 0)}

\* After a failed read the caller has exactly one synthetic error event, the
\* last thing before the end of the response; after a clean end it has none.
ErrorEventRule(c) ==
  IF upstream[c].end = "err"
    THEN ErrorEventsAt(c) = {Len(clientOut[c]) - 1}
    ELSE ErrorEventsAt(c) = {}

AdapterErrors ==
  {"request validation failed: messages are required", "HTTP request failed"}
  \cup {StatusError(st, b) : st \in FailureStatuses, b \in ErrorBodies}

\* C13: while the store works, a dispatched call whose adapter failed
\* (validation, transport or vendor status; synchronous or at the opening
\* of a stream) ends with its record failed carrying the error text and
\* with that error answered to the caller; its record is never completed,
\* and is pending only until the failure is recorded.
C13_AdapterFailureRecorded ==
  \A c \in Calls :
     (logID[c] # 0 /\ callErr[c] # "") =>
        /\ callErr[c] \in AdapterErrors
        /\ RecordOf(c).status # "completed"
        /\ pc[c] = "update" => RecordOf(c).status = "pending"
        /\ pc[c] = "done" =>
              /\ RecordOf(c).status = "failed"
              /\ RecordOf(c).error_message = callErr[c]
              /\ result[c].message = callErr[c]
              /\ result[c].type \in {"api_error", "invalid_request_error"}

\* C13 witness: a streaming call was refused by the vendor at its opening
\* and its record is failed.
C13_Witness ==
  \E c \in Calls :
     /\ pc[c] = "done" /\ logID[c] # 0 /\ req[c].stream
     /\ callErr[c] = "API request failed with status 529: {\"error\":\"overloaded\"}"
     /\ RecordOf(c).status = "failed"


\* C14: a synchronous call answered by the vendor with a status that is not
\* a success ends with an error that carries the status code and the raw
\* body as received, and (while the store works) with its record failed.
C14_VendorStatusVerbatim ==
  \A c \in Calls :
     (pc[c] = "done" /\ httpResp[c] # Nil /\ Get(httpResp[c]).status \notin 200..299) =>
        LET a == Get(httpResp[c]) IN
        /\ callErr[c] = "API request failed with status " \o ToString(a.status)
                           \o ": " \o a.body
        /\ result[c].message = callErr[c]
        /\ RecordOf(c).status = "failed"
        /\ RecordOf(c).error_message = callErr[c]

\* C14 witness: the vendor answered 529 with the body {"error":"overloaded"}.
C14_Witness ==
  \E c \in Calls :
     /\ pc[c] = "done"
     /\ httpResp[c] = Some([status |-> 529, body |-> "{\"error\":\"overloaded\"}"])
     /\ callErr[c] = "API request failed with status 529: {\"error\":\"overloaded\"}"
     /\ RecordOf(c).status = "failed"


\* The cost of a number of tokens at a rate per thousand tokens, in float64.
TokenCost(tokens, rate) == FDiv(FMul(rate, tokens), 1000)

\* C15: while the store works, a synchronous call that the vendor answered
\* with a success ends with its record completed, holding the input,
\* output and total token counts of the neutral response and the input,
\* output and total cost at the resolved model's rates, and the caller is
\* answered with the neutral response.
C15_SyncSuccessRecorded ==
  \A c \in Calls :
     (pc[c] = "done" /\ logID[c] # 0 /\ ~req[c].stream /\ callErr[c] = "") =>
        /\ response[c] # Nil
        /\ result[c].status = 200
        /\ LET u == Get(response[c])
               r == RecordOf(c)
           IN /\ r.status = "completed"
              /\ r.input_tokens = u.input_tokens
              /\ r.output_tokens = u.output_tokens
              /\ r.total_tokens = u.input_tokens + u.output_tokens
              /\ r.input_cost = TokenCost(u.input_tokens, InputRate64)
              /\ r.output_cost = TokenCost(u.output_tokens, OutputRate64)
              /\ r.total_cost = FAdd(r.input_cost, r.output_cost)

\* C15 witness: a completed synchronous call that used tokens on both sides.
C15_Witness ==
  \E c \in Calls :
     /\ pc[c] = "done" /\ logID[c] # 0 /\ ~req[c].stream /\ callErr[c] = ""
     /\ RecordOf(c).status = "completed"
     /\ RecordOf(c).input_tokens = 1 /\ RecordOf(c).output_tokens = MaxTokens
     /\ RecordOf(c).total_cost
          = FAdd(TokenCost(1, InputRate64), TokenCost(MaxTokens, OutputRate64))
     /\ RecordOf(c).total_cost # Zero64


\* The usage {input: i, output: o} of the terminal message_stop event of
\* the vendor stream of call c, if that stream ends with one.
TerminalUsages(c) ==
  {u \in [input_tokens : 0..MaxTokens, output_tokens : 0..MaxTokens] :
     /\ Len(upstream[c].events) > 0
     /\ upstream[c].events[Len(upstream[c].events)]
          \in {EvStopUsage(u.input_tokens, u.output_tokens),
               EvStopUsageBare(u.input_tokens, u.output_tokens)}}

\* The relay goroutine of call c has run its finalize step.
Finalized(c) == relayPc[c] \in {"close", "done"}

CarriesUsage(ev) ==
  \E i \in 1..Len(ev) :
     ev[i].body.json /\ (~IsNil(ev[i].body.message) \/ ~IsNil(ev[i].body.usage))

C18_WriteFailureNotEscalated ==
  \A c \in Calls :
     (pc[c] = "done" /\ logID[c] # 0 /\ ~req[c].stream /\ callErr[c] = "") =>
        /\ result[c] = [status |-> 200, type |-> "", message |-> "ok"]
        /\ response[c] # Nil
        /\ RecordOf(c).status \in {"completed", "pending"}

\* C18 witness: the vendor answered with a success, the completing write
\* failed (the record is still pending) and the caller was answered 200.
C18_Witness ==
  \E c \in Calls :
     /\ pc[c] = "done" /\ logID[c] # 0 /\ ~req[c].stream /\ callErr[c] = ""
     /\ httpResp[c] = Some([status |-> 200, body |-> OkBody])
     /\ RecordOf(c).status = "pending"
     /\ result[c].status = 200


\* C19 (as claimed): no failed write of the store is visible to the caller,
\* the write that creates the pending record included: a call whose key,
\* model and body were accepted is never answered with the error of the
\* store.
C19_StoreFailureInvisible ==
  \A c \in Calls :
     pc[c] = "done" => result[c].message # "failed to create request log"


\* The record cached for key value v has an expiry before the current time.
CachedExpired(v) ==
  redis /\ ~IsNil(cacheAPIKey[v]) /\ Expired(Get(cacheAPIKey[v]).ExpiresAt, now)

\* C20: a lookup made while the cached record of the key is expired ends
\* the call with 401 and without a request context, and removes the entry;
\* and no lookup at all authenticates a key whose expiry is in the past.
C20_ExpiredRejectedOnCacheHit ==
  [][\A c \in Calls :
       (pc[c] = "validate" /\ pc'[c] # "validate") =>
          /\ CachedExpired(req[c].apiKey) =>
                /\ reqCtx'[c] = Nil
                /\ pc'[c] = "done"
                /\ result'[c].status = 401
                /\ cacheAPIKey'[req[c].apiKey] = Nil
          /\ reqCtx'[c] # Nil => ~Expired(Get(reqCtx'[c]).ExpiresAt, now)]_vars

\* C20 witness: a call is at its lookup at time 2 while the record cached
\* for its key expired at time 1.
C20_Witness ==
  \E c \in Calls :
     /\ pc[c] = "validate" /\ req[c].apiKey = "k1"
     /\ now = 2 /\ CachedExpired("k1")
     /\ Get(cacheAPIKey["k1"]).ExpiresAt = Some(1)


\* What a lookup decides: its error and the key it admits.
Decision(r) == [err |-> r.err, key |-> IF r.err = "" THEN r.key ELSE Nil]

\* C21: in every state, whatever the store queries answer, a lookup whose
\* cache writes fail decides (error, admitted key) exactly as the lookup
\* whose cache writes succeed.
C21_CacheWriteFailureHarmless ==
  \A v \in KeyValues : \A q1 \in BOOLEAN, q2 \in BOOLEAN, w1 \in BOOLEAN, w2 \in BOOLEAN :
     Decision(ValidateAPIKeyOptimized(v, q1, q2, w1, w2))
       = Decision(ValidateAPIKeyOptimized(v, q1, q2, TRUE, TRUE))

\* C21 witness: with a cache backend, a key with a ceiling was admitted
\* from the durable store while neither its record nor its usage snapshot
\* could be written to the cache.
C21_Witness ==
  \E c \in Calls :
     /\ redis /\ reqCtx[c] # Nil /\ HasLimits(Get(reqCtx[c]))
     /\ usageSource[c] = "db"
     /\ cacheAPIKey[req[c].apiKey] = Nil
     /\ cacheUsage[Get(reqCtx[c]).ID] = Nil


\* C22 (as claimed): without a cache backend every lookup, single or
\* batched, reports a miss without error, every populate leaves the cache
\* as it is, and the lookup of a call decides as from an empty cache.
C22_NoBackendDegrades ==
  ~redis =>
     /\ \A v \in KeyValues : ~GetAPIKeyFound(v) /\ GetAPIKeyEffect(v) = cacheAPIKey
     /\ \A k \in Keys : ~GetUsageCountFound(cacheUsage, k)
     /\ \A v \in Keys, ok \in BOOLEAN :
           /\ SetAPIKey(cacheAPIKey, v, apiKeys[v], ok) = cacheAPIKey
           /\ SetUsageCount(cacheUsage, v, getBatchUsageFromDB(logs, v), ok) = cacheUsage
     /\ \A keys \in SUBSET CacheKeys, ok \in BOOLEAN :
           GetBatch(keys, ok) = [err |-> "", found |-> {}]


\* The vendor answered the streaming request of call c with a status that
\* is not a success.
StreamRejected(c) ==
  /\ pc[c] \in {"update", "done"} /\ logID[c] # 0 /\ req[c].stream
  /\ httpResp[c] # Nil /\ Get(httpResp[c]).status \notin 200..299

\* C23: when the vendor rejects a streaming request outright, the error
\* with the status and the body is returned and no event source: no reader
\* and no relay was started, nothing is sent to the client, the response
\* body is closed, and (while the store works) the record becomes failed.
C23_StreamRejectFailsFast ==
  \A c \in Calls :
     StreamRejected(c) =>
        /\ callErr[c] = StatusError(Get(httpResp[c]).status, Get(httpResp[c]).body)
        /\ readerPc[c] = "none" /\ relayPc[c] = "none"
        /\ upstream[c] = NoUpstream
        /\ clientOut[c] = <<>>
        /\ bodyClosed[c]
        /\ pc[c] = "done" =>
              /\ RecordOf(c).status = "failed"
              /\ result[c].message = callErr[c]

\* C23 witness: a streaming request was answered 529 and the call is over.
C23_Witness ==
  \E c \in Calls :
     /\ StreamRejected(c) /\ pc[c] = "done"
     /\ Get(httpResp[c]).status = 529
     /\ RecordOf(c).status = "failed" /\ bodyClosed[c]


TotalIsSum(u) == u.total_tokens = u.input_tokens + u.output_tokens

InvalidRequest(r) ==
  \/ r.model = ""
  \/ Len(r.messages) = 0
  \/ \E i \in 1..Len(r.messages) : r.messages[i].Content = ""
  \/ \E i \in 1..Len(r.messages) : r.messages[i].Role \notin {"user", "assistant"}
  \/ (Len(r.messages) > 0 /\ r.messages[1].Role # "user")

\* C25: once the adapter has been called, it failed with a validation error
\* if and only if the request has no model, no message, a message with
\* empty content, a role outside {user, assistant} or a first message not
\* from user; and after such a failure no request was sent upstream, while
\* a valid request was sent.
C25_ValidateRequestIff ==
  \A c \in Calls :
     (logID[c] # 0 /\ pc[c] \notin {"call", "create", "idle"}) =>
        /\ ErrContains(callErr[c], "validation") <=> InvalidRequest(req[c])
        /\ InvalidRequest(req[c]) <=> (upstreamSent[c] = 0)

\* C25 witness: a request of two well-formed messages that opens with the
\* assistant's turn was refused without an upstream request.
C25_Witness ==
  \E c \in Calls :
     /\ pc[c] = "update" /\ upstreamSent[c] = 0
     /\ req[c].messages = <<[Role |-> "assistant", Content |-> "hi"],
                            [Role |-> "user", Content |-> "hi"]>>
     /\ callErr[c] = "request validation failed: first message must be from user"


\* C26: the vendor payload built for a request always holds model,
\* messages and max_tokens (the caller's value, else 4096), and holds
\* temperature, top_p, system, stop_sequences, stream and metadata exactly
\* when the request has them, with the request's values; no field is null.
C26_TransformRequestFields ==
  \A c \in Calls :
     vendorReq[c] # Nil =>
        LET p == Get(vendorReq[c])
            r == req[c]
            o == req[c].opts
        IN /\ DOMAIN p = {"model", "messages", "max_tokens"}
                            \cup (IF o.temperature # Nil THEN {"temperature"} ELSE {})
                            \cup (IF o.top_p # Nil THEN {"top_p"} ELSE {})
                            \cup (IF o.system # "" THEN {"system"} ELSE {})
                            \cup (IF o.stop # Nil THEN {"stop_sequences"} ELSE {})
                            \cup (IF r.stream THEN {"stream"} ELSE {})
                            \cup (IF o.metadata # Nil THEN {"metadata"} ELSE {})
           /\ p["model"] = Some(r.model) /\ p["messages"] = Some(r.messages)
           /\ p["max_tokens"] = (IF o.max_tokens # Nil THEN o.max_tokens ELSE Some(4096))
           /\ o.temperature # Nil => p["temperature"] = o.temperature
           /\ o.top_p # Nil => p["top_p"] = o.top_p
           /\ o.system # "" => p["system"] = Some(o.system)
           /\ o.stop # Nil => p["stop_sequences"] = o.stop
           /\ r.stream => p["stream"] = Some(TRUE)
           /\ o.metadata # Nil => p["metadata"] = o.metadata
           /\ \A f \in DOMAIN p : p[f] # Nil

\* C26 witness: a payload built for a request that has a temperature of 0
\* and an empty stop list and nothing else: both are emitted, next to the
\* default max_tokens.
C26_Witness ==
  \E c \in Calls :
     /\ vendorReq[c] # Nil
     /\ req[c].opts = [NoOpts EXCEPT !.temperature = Some(0), !.stop = Some(<<>>)]
     /\ DOMAIN Get(vendorReq[c])
           = {"model", "messages", "max_tokens", "temperature", "stop_sequences"}
     /\ Get(vendorReq[c])["max_tokens"] = Some(4096)


\* The costs recorded for a completed call, and its usage.
Costed(c) == pc[c] = "done" /\ callErr[c] = "" /\ RecordOf(c).status = "completed"

\* The three costs of a record are those of the formulas, as the code
\* evaluates them in float64, and a call that used no token costs nothing.
CostFormulas ==
  \A c \in Calls :
     Costed(c) =>
        LET r == RecordOf(c) IN
        /\ r.input_cost = TokenCost(r.input_tokens, InputRate64)
        /\ r.output_cost = TokenCost(r.output_tokens, OutputRate64)
        /\ r.total_cost = FAdd(r.input_cost, r.output_cost)
        /\ (r.input_tokens = 0 /\ r.output_tokens = 0) =>
              (r.input_cost = Zero64 /\ r.output_cost = Zero64 /\ r.total_cost = Zero64)

\* Each cost of the summed usage of two completed calls is the float64 sum
\* of the costs recorded for the two calls.
CostAdditive ==
  \A c1, c2 \in Calls :
     (c1 # c2 /\ Costed(c1) /\ Costed(c2)) =>
        LET a == RecordOf(c1)
            b == RecordOf(c2)
            ab == CalculateCost(VendorUsage(a.input_tokens + b.input_tokens,
                                            a.output_tokens + b.output_tokens))
        IN /\ ab.input_cost = FAdd(a.input_cost, b.input_cost)
           /\ ab.output_cost = FAdd(a.output_cost, b.output_cost)
           /\ ab.total_cost = FAdd(a.total_cost, b.total_cost)

\* C27: calculateCost reports inputCost = inputTokens x rate / 1000,
\* outputCost = outputTokens x rate / 1000 and totalCost = inputCost +
\* outputCost; zero tokens cost zero; and every component of the cost of
\* a + b tokens equals the sum of that component of the costs of a and of b.
\* The last part fails in float64: the total cost of 3 input and 3 output
\* tokens is 5.4e-05, and the total costs of 1 and 1 and of 2 and 2 tokens
\* add up to 5.399999999999999e-05.
C27_CostLinearAdditive == CostFormulas /\ CostAdditive


\* The category the handlers give to the failures of their taxonomy that
\* are a quota refusal (handlers/llm.go, lines 105-107 and 140-142).
QuotaCategory == "rate_limit_error"
KeyErrors == {"invalid API key", "API key expired"}

\* C28: a failure answered to the caller carries the category of its cause:
\* a call refused because a daily or monthly ceiling is met is answered in
\* the quota category, which is not the authentication category, and a call
\* refused for its key is answered in the authentication category.
\* The code answers a ceiling refusal 401 authentication_error.
C28_FailureCategories ==
  \A c \in Calls :
     pc[c] = "done" =>
        /\ result[c].message \in LimitErrors =>
              (result[c].type = QuotaCategory /\ result[c].type # "authentication_error")
        /\ result[c].message \in KeyErrors => result[c].type = "authentication_error"


\* The positions of the [DONE] marker in what the client of call c received.
DoneAt(c) == {i \in 1..Len(clientOut[c]) : clientOut[c][i] = DoneMarker}

\* C29: for a streaming call whose source was returned and whose client
\* stays connected, the [DONE] marker is written at most once, only once
\* the relayed source is closed and drained, and nothing is written after
\* it; when the handler has returned, the marker is the last thing the
\* client received.
C29_DoneMarkerTerminates ==
  \A c \in Calls :
     (relayPc[c] # "none" /\ ~cancelled[c]) =>
        /\ Cardinality(DoneAt(c)) <= 1
        /\ DoneAt(c) \subseteq {Len(clientOut[c])}
        /\ DoneAt(c) # {} => (wrappedChan[c].closed /\ wrappedChan[c].buf = <<>>)
        /\ pc[c] = "done" => DoneAt(c) = {Len(clientOut[c])} /\ DoneAt(c) # {}

\* C29 witness: a connected client received two forwarded events and then
\* the marker.
C29_Witness ==
  \E c \in Calls :
     /\ relayPc[c] # "none" /\ ~cancelled[c] /\ pc[c] = "done"
     /\ Len(clientOut[c]) = 3
     /\ DoneAt(c) = {3}


\* The rows of a key created in one of the windows whose status is
\* completed or pending.
CountedRows(keyID, windows) ==
  {i \in DOMAIN logs : /\ logs[i].api_key_id = keyID
                       /\ logs[i].created \in windows
                       /\ logs[i].status \in {"completed", "pending"}}

\* C30: the counts a call reads from the durable store are the numbers of
\* the key's records of the current day, and of the current month, whose
\* status is completed or pending; failed records are not counted.
\* The code's query has no condition on the status and counts them.
C30_CountsCompletedOrPending ==
  [][\A c \in Calls :
       (/\ pc[c] = "validate" /\ pc'[c] # "validate"
        /\ usageSource'[c] = "db" /\ ~IsNil(usageSnap'[c]))
       => LET u == Get(usageSnap'[c])
              id == apiKeys[req[c].apiKey].ID
          IN /\ u.DailyCount = Cardinality(CountedRows(id, {"today"}))
             /\ u.MonthlyCount = Cardinality(CountedRows(id, {"today", "month"}))]_vars


\* The call passed the parsing of its body, and its model does not resolve
\* for the key's vendor or the vendor has no adapter.
Unresolved(c) ==
  /\ pc[c] \notin {"idle", "validate", "bind"} /\ req[c].bindOk /\ ~IsNil(reqCtx[c])
  /\ LET t == Get(reqCtx[c]).ProviderType IN
     \/ ~\E m \in LLMModels :
            m.provider = t /\ m.model_id = req[c].model /\ m.status = "active"
     \/ t \notin RegisteredProviders

\* C31: a call whose model is not an active model of the key's vendor, or
\* whose vendor has no registered adapter, ends with the model-not-found or
\* provider-not-supported error, without an accounting record and without
\* an upstream request.
C31_UnresolvedFailsFirst ==
  \A c \in Calls :
     Unresolved(c) =>
        /\ pc[c] \in {"resolve", "done"}
        /\ logID[c] = 0 /\ upstreamSent[c] = 0
        /\ \A i \in DOMAIN logs : logs[i].request # c
        /\ pc[c] = "done" =>
              result[c].message \in {"model not found", "provider not supported"}

\* C31 witness: a call for the retired model m2 of a vendor whose adapter
\* is registered was refused.
C31_Witness ==
  \E c \in Calls :
     /\ pc[c] = "done" /\ Unresolved(c)
     /\ req[c].model = "m2" /\ Get(reqCtx[c]).ProviderType = "anthropic"
     /\ result[c].message = "model not found"

\* C31 second case: a vendor without adapter.
C31_WitnessProvider ==
  \E c \in Calls :
     /\ pc[c] = "done" /\ Unresolved(c)
     /\ req[c].model = "m3" /\ result[c].message = "provider not supported"


\* C32: whenever the caller-facing channel of a streaming call is closed,
\* the accounting record of the call is completed or failed, not pending.
\* In part_004 the relay that finds the channel full returns through the
\* deferred close without the finalize step, and the record stays pending.
C32_ClosedAfterFinalize ==
  \A c \in Calls :
     (relayPc[c] # "none" /\ wrappedChan[c].closed) =>
        RecordOf(c).status \in {"completed", "failed"}


\* The positions in the vendor stream of the events the adapter has put on
\* its channel so far, and those of them that carry no accounting data (the
\* relay finds no usage in them).
EmittedBy(c) ==
  {i \in 1..readPos[c] :
     /\ ~IsNil(processSSEEvent(upstream[c].events[i]))
     /\ ~(~IsNil(readerMsg[c]) /\ Get(readerMsg[c]).src = i)}

NonAccounting(c, i) ==
  IsNil(extractUsageFromSSE(Get(processSSEEvent(upstream[c].events[i]))))

\* C33: once the handler has written the [DONE] marker to a client that is
\* still connected, every event without accounting data that the adapter
\* emitted for the call is among the events written to the client, and so
\* is the adapter's error event if it emitted one.
\* In part_004 a relay that found the channel full has dropped the rest.
C33_NoTruncationBeforeDone ==
  \A c \in Calls :
     (relayPc[c] # "none" /\ ~cancelled[c] /\ DoneAt(c) # {}) =>
        /\ {i \in EmittedBy(c) : NonAccounting(c, i)} \subseteq Delivered(c)
        /\ (readerPc[c] \in {"exit", "done"} /\ SendsErrorEvent(upstream[c].end)) =>
              \E i \in 1..Len(clientOut[c]) : clientOut[c][i] = Item(ErrorEvent, 0)


\* Call c is being validated in this step, for a key that authenticates in
\* the durable store and has a ceiling, while a snapshot below the key's
\* ceilings is cached.
JudgedWithSnapshot(c) ==
  /\ pc[c] = "validate" /\ pc'[c] # "validate"
  /\ redis
  /\ KeyFound(req[c].apiKey)
  /\ ~Expired(apiKeys[req[c].apiKey].ExpiresAt, now)
  /\ HasLimits(apiKeys[req[c].apiKey])
  /\ ~IsNil(cacheUsage[req[c].apiKey])
  /\ LimitError(apiKeys[req[c].apiKey], Get(cacheUsage[req[c].apiKey])) = ""

\* The call is admitted on the cached snapshot, which stays as it is.
AdmittedOnCached(c) ==
  /\ pc'[c] = "bind"
  /\ usageSnap'[c] = cacheUsage[req[c].apiKey]
  /\ cacheUsage' = cacheUsage

\* No call is validated in this step.
NoValidation == \A c \in Calls : pc[c] # "validate" \/ pc'[c] = "validate"

\* C34 (as claimed): no step after the validation of a call touches the
\* cached usage snapshot, and every call of the key validated while a
\* snapshot below the ceiling is cached is admitted on that snapshot, which
\* stays as it is, whatever the durable count.
C34_StaleSnapshotAdmits ==
  [][/\ NoValidation => cacheUsage' = cacheUsage
     /\ \A c \in Calls : JudgedWithSnapshot(c) => AdmittedOnCached(c)]_vars

\* C34 (amended): no step after the validation of a call touches the cached
\* usage snapshot, and a call validated while a snapshot below the ceiling
\* is cached is admitted on that snapshot, which stays as it is, when the
\* key itself is found in the cache or the orchestrator is that of llm.go;
\* the orchestrator of part_004 counts anew when the key misses the cache.
C34_StaleSnapshotAdmitsOnKeyHit ==
  [][/\ NoValidation => cacheUsage' = cacheUsage
     /\ \A c \in Calls :
          (JudgedWithSnapshot(c) /\ (impl = "llm.go" \/ GetAPIKeyFound(req[c].apiKey)))
             => AdmittedOnCached(c)]_vars

\* C34 witness: a call was admitted on a cached snapshot of no request
\* while the key has as many records as its daily ceiling allows, and its
\* own record was created without a change of the snapshot.
C34_Witness ==
  \E c \in Calls :
     /\ logID[c] # 0 /\ usageSource[c] = "cache"
     /\ usageSnap[c] = cacheUsage["k1"]
     /\ Get(usageSnap[c]).DailyCount = 0
     /\ apiKeys["k1"].DailyRequestLimit > 0
     /\ Cardinality(KeyRows("k1")) > apiKeys["k1"].DailyRequestLimit


\* Call c is being validated in this step.
Validating(c) == pc[c] = "validate" /\ pc'[c] # "validate"

\* The validation of call c ended with the error that the usage of the key
\* could not be checked, and the call went no further.
UsageCheckFailed(c) ==
  /\ pc'[c] = "done" /\ reqCtx'[c] = Nil
  /\ result'[c] = [status |-> 401, type |-> "authentication_error",
                    message |-> "failed to check usage limits"]

\* C35: a call admitted for a key with a positive ceiling was compared with
\* a snapshot, the cached one or one counted from the durable store in this
\* validation, and is below every positive ceiling of it; and a validation
\* of such a key that got no snapshot (none cached, every count query
\* failed) ends with the usage-check error, whether the key was found in
\* the cache or in the durable store.
C35_AdmittedOnlyAfterComparison ==
  [][\A c \in Calls :
       LET v == req[c].apiKey IN
       /\ (Validating(c) /\ pc'[c] = "bind" /\ HasLimits(Get(reqCtx'[c]))) =>
             /\ ~IsNil(usageSnap'[c])
             /\ LimitError(Get(reqCtx'[c]), Get(usageSnap'[c])) = ""
             /\ \/ usageSource'[c] = "cache" /\ usageSnap'[c] = cacheUsage[v]
                   /\ GetUsageCountFound(cacheUsage, v)
                \/ usageSource'[c] = "db"
                   /\ usageSnap'[c] = Some(getBatchUsageFromDB(logs, v))
       /\ (/\ Validating(c)
           /\ GetAPIKeyFound(v) \/ (KeyFound(v) /\ ~Expired(apiKeys[v].ExpiresAt, now))
           /\ HasLimits(apiKeys[v])
           /\ usageSource'[c] = "none") =>
             /\ ~GetUsageCountFound(cacheUsage, v)
             /\ UsageCheckFailed(c)]_vars

\* C35 witness: the validation of a key with a ceiling ended with the
\* usage-check error, the key being served from the cache.
C35_Witness ==
  \E c \in Calls :
     /\ pc[c] = "done" /\ reqCtx[c] = Nil
     /\ result[c].message = "failed to check usage limits"
     /\ GetAPIKeyFound(req[c].apiKey)
     /\ HasLimits(apiKeys[req[c].apiKey])

\* The same ending with the key read from the durable store.
C35_WitnessKeyMiss ==
  \E c \in Calls :
     /\ pc[c] = "done" /\ reqCtx[c] = Nil
     /\ result[c].message = "failed to check usage limits"
     /\ ~redis
     /\ HasLimits(apiKeys[req[c].apiKey])


\* The durable store holds key k with a status that is not active.
NonActive(k) == k \in Keys /\ apiKeys[k].Status # "active"

\* A validation of call c begins in this step (in one piece, or with its
\* durable-store lookup).
BeginsValidation(c) == pc[c] = "validate" /\ pc'[c] # "validate"

\* A cache hit is accepted without a look at the durable status: the call
\* is not refused as having an invalid key.
HitAcceptedUnchecked ==
  \A c \in Calls :
     (BeginsValidation(c) /\ NonActive(req[c].apiKey) /\ GetAPIKeyFound(req[c].apiKey)) =>
        \/ pc'[c] = "bind" /\ reqCtx'[c] = Some(Get(cacheAPIKey[req[c].apiKey]).APIKey)
        \/ pc'[c] = "done" /\ result'[c].message \notin {"invalid API key", "API key expired"}

\* A validation that begins without a usable entry refuses a non-active key.
MissRejected ==
  \A c \in Calls :
     (BeginsValidation(c) /\ NonActive(req[c].apiKey) /\ ~GetAPIKeyFound(req[c].apiKey)) =>
        /\ pc'[c] = "done" /\ reqCtx'[c] = Nil
        /\ result'[c].message = "invalid API key"

\* Once a non-active key has no cache entry, it gets none again.
NoEntryAfterExpiry ==
  \A k \in Keys : (NonActive(k) /\ IsNil(cacheAPIKey[k])) => IsNil(cacheAPIKey'[k])

\* C36: a cache hit authenticates a key without a look at its durable
\* status; a key that is not active in the durable store is refused by
\* every validation that finds no entry, and once its entry has expired or
\* was invalidated no entry for it appears again, so that every later call
\* is refused.
C36_StalenessBoundedByEntry ==
  [][HitAcceptedUnchecked /\ MissRejected /\ NoEntryAfterExpiry]_vars

\* The first two parts of C36 alone.
C36_HitAcceptedMissRejected == [][HitAcceptedUnchecked /\ MissRejected]_vars


\* The event source of call c was returned to the caller and a later read
\* of the vendor body failed with an error other than a clean end.
MidStreamError(c) ==
  /\ relayPc[c] # "none"
  /\ upstream[c].end = "err"
  /\ readerPc[c] \in {"sendErr", "exit", "done"}

\* The record of a call whose event source was returned is never failed.
NeverFailedAfterReturn ==
  \A c \in Calls : relayPc[c] # "none" => RecordOf(c).status # "failed"

\* C37: while the store works, a record is failed only when the call never
\* returned an event source, and a streaming call whose read failed
\* mid-stream has, once its relay has ended and closed the caller-facing
\* source, a completed record.
C37_MidStreamErrorCompleted ==
  /\ NeverFailedAfterReturn
  /\ \A c \in Calls :
        (MidStreamError(c) /\ wrappedChan[c].closed) => RecordOf(c).status = "completed"

\* The part of C37 that holds: no failed record after the source was
\* returned, and a completed record when the relay finalized.
C37_CompletedWhenFinalized ==
  /\ NeverFailedAfterReturn
  /\ \A c \in Calls :
        (MidStreamError(c) /\ relayPc[c] = "done") => RecordOf(c).status = "completed"


\* The instant of the latest midnight on the wall clock of a server loc
\* hours ahead of UTC, at instant t.
LocalMidnight(t, loc) == ((t + loc) \div DayHours) * DayHours - loc

\* C38: the daily window of a count starts at the latest local midnight and
\* ends at the next one, for every instant and every time zone of the
\* server.
C38_DailyWindowLocalMidnight ==
  ~IsNil(window) =>
     /\ Get(window).today = LocalMidnight(now, location)
     /\ Get(window).tomorrow = LocalMidnight(now, location) + DayHours

\* What holds instead: the window starts at the latest midnight of UTC and
\* is one day long, and holds the current instant.
C38_DailyWindowUTCMidnight ==
  ~IsNil(window) =>
     /\ Get(window).today = LocalMidnight(now, 0)
     /\ Get(window).tomorrow = Get(window).today + DayHours
     /\ Get(window).today <= now /\ now < Get(window).tomorrow


\* The token of a bearer Authorization header, empty when the header is
\* absent, is not a bearer header or has no token.
BearerToken(in) ==
  IF HasPrefix(TrimHeaderRight(TrimHeaderLeft(in.Authorization)), BearerPrefix)
    THEN TrimPrefix(TrimHeaderRight(TrimHeaderLeft(in.Authorization)), BearerPrefix) ELSE <<>>

\* The first key present, in the order bearer header, x-api-key header,
\* api_key parameter; empty when none carries a key.
FirstPresent(in) ==
  IF BearerToken(in) # <<>> THEN BearerToken(in)
  ELSE IF TrimHeaderRight(TrimHeaderLeft(in.XApiKey)) # <<>> THEN TrimHeaderRight(TrimHeaderLeft(in.XApiKey))
  ELSE in.api_key

MissingKeyAnswer ==
  [status |-> 401, type |-> "authentication_error", message |-> "API key is required"]

\* C39: once the handler has extracted the key of a call, the call is
\* refused as missing a key exactly when none of the three sources carries
\* one, and otherwise goes on with the first key present in the order
\* bearer header, x-api-key header, api_key parameter.
C39_FirstPresentKey ==
  \A c \in {1} :
     pc[c] # "idle" =>
        IF FirstPresent(inbound) = <<>>
          THEN result[c] = MissingKeyAnswer
          ELSE result[c] # MissingKeyAnswer /\ req[c].apiKey = KeyOf(FirstPresent(inbound))

\* C39 witness: a call with a bearer header without a token, an x-api-key
\* header carrying kx and an api_key parameter carrying k1 went on with kx.
C39_Witness ==
  /\ pc[1] = "validate"
  /\ inbound = [Authorization |-> BearerPrefix, XApiKey |-> KeyChars["kx"],
                api_key |-> KeyChars["k1"]]
  /\ req[1].apiKey = "kx"

\* A call with nothing but an api_key parameter went on with it, and a call
\* with none of the three was refused.
C39_WitnessQuery ==
  /\ pc[1] = "validate"
  /\ inbound = [Authorization |-> <<>>, XApiKey |-> <<>>, api_key |-> KeyChars["k1"]]
  /\ req[1].apiKey = "k1"

C39_WitnessMissing ==
  /\ pc[1] = "done" /\ inbound = NoInbound /\ result[1] = MissingKeyAnswer


\* C40: for every address the counter of its visitor is at most rate, and
\* the calls allowed since its window began (a new visitor or a reset of the
\* window) are as many as the counter says, so at most rate, with callers
\* from both addresses running Allow concurrently.
C40_AtMostRatePerWindow ==
  \A ip \in DOMAIN limiter.visitors :
     ~IsNil(limiter.visitors[ip]) =>
        /\ Get(limiter.visitors[ip]).count <= limiter.rate
        /\ granted.count[ip] <= limiter.rate
        /\ granted.count[ip] = Get(limiter.visitors[ip]).count

\* C40 witness: an address has used up its window (rate calls allowed) and
\* a further call of it in the same window was refused.
C40_Witness ==
  \E ip \in DOMAIN limiter.visitors :
     /\ limiter.rate = MaxRate
     /\ ~IsNil(limiter.visitors[ip])
     /\ granted.count[ip] = limiter.rate
     /\ granted.refused[ip]

====
